---- MODULE Spec2Model ----
(***************************************************************************)
(* The connector operations queue of npmx.dev, in its two implementations: *)
(*   impl = "mock"  MockConnectorStateManager                              *)
(*                  (src/shared/test-utils/mock-connector-state.ts)        *)
(*   impl = "real"  createConnectorApp, the HTTP connector                 *)
(*                  (src/unnamed/part_004, with the npm client and types   *)
(*                  of src/unnamed/part_005)                               *)
(*                                                                         *)
(* Strings the code takes apart (org names, Authorization headers) are     *)
(* sequences of chunks; the other strings are TLA+ strings.  An operation  *)
(* id is the number n of `op-n` (mock) or of the n-th id drawn from        *)
(* crypto.randomBytes (real, taken to be fresh).  description, command,    *)
(* createdAt, stdout and stderr decide nothing and are left out.           *)
(***************************************************************************)
EXTENDS Integers, Sequences, FiniteSets, TLC

\* ------------------------------------------------------------------ bounds
\* operations enqueued before the id counter is reset
MaxOps == 2
\* POST /execute requests the real connector can have in flight
MaxExec == 2

\* Date.now(), one abstract instant
DateNow == 1

\* err.code of a command that could not be spawned is a string such as 'ENOENT':
\* it stands here as a value that is no exit status
ENOENT == -1

VARIABLES
  impl,                \* which connector runs: "mock" or "real"
  operations,          \* state.operations: the queue, in insertion order
  operationIdCounter,  \* mock: state.operationIdCounter; real: ids drawn so far
  connected,           \* mock: state.connected
  connectedAt,         \* mock: state.connectedAt (0 is null); real: session.connectedAt
  npmUser,             \* real: session.npmUser
  orgs,                \* mock: state.orgs, the mirrored org data
  otp,                 \* real: state.otp
  mexec,               \* mock: the frame of the executeOperations() call in progress
  rexec                \* real: the frame of the POST /execute request in flight

vars == <<impl, operations, operationIdCounter, connected, connectedAt, npmUser,
          orgs, otp, mexec, rexec>>

\* ----------------------------------------------------------------- values
Undefined == "undefined"
Null == "null"

\* JavaScript truthiness of an optional string
Truthy(s) == s # Undefined /\ s # Null /\ s # ""

\* the configured secret (expectedToken, config.token) and another token
Secret == "k"
Tokens == {Secret, "x"}

Statuses == {"pending", "approved", "running", "completed", "failed"}

\* the type OperationStatus
OperationStatus == Statuses \cup {"cancelled"}

\* an object with string keys: a function on the keys it has
EmptyObject == <<>>
Has(o, k) == k \in DOMAIN o
Put(o, k, v) == [x \in DOMAIN o \cup {k} |-> IF x = k THEN v ELSE o[x]]
Delete(o, k) == [x \in DOMAIN o \ {k} |-> o[x]]

\* destructuring: the keys of K that o has (a key that is undefined is a key
\* the object does not have)
Pick(o, K) == [x \in DOMAIN o \cap K |-> o[x]]

\* an optional value: <<>> is undefined, <<v>> is v
None == <<>>
Some(v) == <<v>>

\* the request bodies of the model: NewOperationInput without dependsOn
Inputs ==
  { [type |-> "org:add-user",
     params |-> [org |-> <<"@", "acme">>, user |-> <<"bob">>, role |-> <<"developer">>]],
    [type |-> "org:rm-user",
     params |-> [org |-> <<"acme">>, user |-> <<"bob">>]] }

\* the request bodies sent to the real connector; org:set-role is an OperationType
\* that executeOperation has no case for
RealInputs ==
  { [type |-> "org:add-user",
     params |-> [org |-> <<"@", "acme">>, user |-> <<"bob">>, role |-> <<"developer">>]],
    [type |-> "org:set-role",
     params |-> [org |-> <<"@", "acme">>, user |-> <<"bob">>, role |-> <<"admin">>]] }

\* the bodies the app sends for a new member and for a new team: team:create
\* carries scopeTeam, `@acme:devs`
EffectInputs ==
  { [type |-> "org:add-user",
     params |-> [org |-> <<"@", "acme">>, user |-> <<"bob">>, role |-> <<"developer">>]],
    [type |-> "team:create",
     params |-> [scopeTeam |-> <<"@", "acme", ":", "devs">>]] }

\* dependsOn: 0 is undefined, n is the id of operation n (existing or not)
DependsOnValues == 0..MaxOps

\* more bodies POST /operations is sent: a type outside OperationType, a body
\* without params, a body without type
MoreInputs ==
  { [type |-> "deploy",
     params |-> [org |-> <<"@", "acme">>, user |-> <<"bob">>, role |-> <<"developer">>]],
    [type |-> "org:add-user"],
    [params |-> [org |-> <<"@", "acme">>, user |-> <<"bob">>, role |-> <<"developer">>]] }

\* the otp option of executeOperations()
OtpValues == {Undefined, "", "123456"}

\* body.otp of POST /otp
OtpBodies == {Undefined, "123456"}

\* body.token of POST /connect
TokenBodies == Tokens \cup {Undefined}

\* what npm whoami gives getNpmUser: a user name, or null when it fails
WhoamiResults == {Null, "alice"}

\* the Authorization headers, as chunks: <<>> is an absent (or empty) header,
\* <<"Bearer ", "k">> is `Bearer k`
Headers ==
  { <<>>,
    <<"Bearer ", Secret>>,
    <<"Bearer ", "x">>,
    <<"Bearer ">>,
    <<Secret>>,
    <<"x">>,
    <<Secret, "Bearer ">>,
    <<"x", "Bearer ", Secret>> }

\* options.results[op.id]: undefined, or a Partial<OperationResult>
ConfiguredResults ==
  { None,
    Some(EmptyObject),
    Some([exitCode |-> 0]),
    Some([exitCode |-> 1]),
    Some([requiresOtp |-> TRUE]),
    Some([exitCode |-> 0, requiresOtp |-> TRUE]) }

\* --------------------------------------------------------- queue helpers
Ids(ops) == {ops[i].id : i \in 1..Len(ops)}

\* Array.prototype.findIndex by id; 0 is -1
FindIndex(ops, id) ==
  IF \E i \in 1..Len(ops) : ops[i].id = id
  THEN CHOOSE i \in 1..Len(ops) : ops[i].id = id /\ \A j \in 1..(i - 1) : ops[j].id # id
  ELSE 0

RECURSIVE Filter(_, _)
\* Array.prototype.filter on status membership
Filter(ops, keep) ==
  IF ops = <<>> THEN <<>>
  ELSE IF Head(ops).status \in keep
       THEN <<Head(ops)>> \o Filter(Tail(ops), keep)
       ELSE Filter(Tail(ops), keep)

\* splice(index, 1)
Splice(ops, index) ==
  [i \in 1..(Len(ops) - 1) |-> IF i < index THEN ops[i] ELSE ops[i + 1]]

StatusOf(id) == operations[FindIndex(operations, id)].status

IdleFrame ==
  [pc |-> "idle", sorted |-> <<>>, i |-> 0, otp |-> Undefined,
   results |-> <<>>, otpRequired |-> FALSE]

\* the POST /execute requests
ExecReqs == 1..MaxExec

\* a POST /execute request that is not in flight
IdleRequest == [pc |-> "idle", approvedOps |-> <<>>, i |-> 0, otp |-> Null, results |-> <<>>]

\* ------------------------------------------------------------ mock: session
\* MockConnectorStateManager.connect
connect(token) ==
  /\ impl = "mock" /\ mexec.pc = "idle"
  /\ IF token # Secret
     THEN UNCHANGED <<connected, connectedAt>>
     ELSE connected' = TRUE /\ connectedAt' = DateNow
  /\ UNCHANGED <<impl, operations, operationIdCounter, npmUser, orgs, otp, mexec, rexec>>

\* the value connect returns
connectReturns(token) == token = Secret

\* MockConnectorStateManager.disconnect
disconnect ==
  /\ impl = "mock" /\ mexec.pc = "idle"
  /\ connected' = FALSE
  /\ connectedAt' = 0
  /\ operations' = <<>>
  /\ UNCHANGED <<impl, operationIdCounter, npmUser, orgs, otp, mexec, rexec>>

\* MockConnectorStateManager.reset
reset ==
  /\ impl = "mock" /\ mexec.pc = "idle"
  /\ connected' = FALSE
  /\ connectedAt' = 0
  /\ orgs' = EmptyObject
  /\ operations' = <<>>
  /\ operationIdCounter' = 0
  /\ UNCHANGED <<impl, npmUser, otp, mexec, rexec>>

\* -------------------------------------------------------------- mock: queue
\* the operation addOperation builds
NewOperation(id, input, dependsOn) ==
  [id |-> id, type |-> input.type, params |-> input.params, status |-> "pending",
   dependsOn |-> dependsOn, reqDependsOn |-> dependsOn, result |-> None]

\* a variant of addOperation that numbers the operation by its place in the queue
addOperationByLength(input, dependsOn) ==
  /\ impl = "mock" /\ mexec.pc = "idle"
  /\ operationIdCounter < MaxOps
  /\ operationIdCounter' = operationIdCounter + 1
  /\ operations' = Append(operations, NewOperation(Len(operations) + 1, input, dependsOn))
  /\ UNCHANGED <<impl, connected, connectedAt, npmUser, orgs, otp, mexec, rexec>>

\* MockConnectorStateManager.addOperation
addOperation(input, dependsOn) ==
  /\ impl = "mock" /\ mexec.pc = "idle"
  /\ operationIdCounter < MaxOps
  /\ operationIdCounter' = operationIdCounter + 1
  /\ operations' = Append(operations, NewOperation(operationIdCounter + 1, input, dependsOn))
  /\ UNCHANGED <<impl, connected, connectedAt, npmUser, orgs, otp, mexec, rexec>>

\* what removeOperation returns
removeOperationReturns(id) ==
  LET index == FindIndex(operations, id)
  IN index # 0 /\ operations[index].status # "running"

\* a variant of removeOperation that keeps the operation and marks it cancelled
removeOperationCancels(id) ==
  /\ impl = "mock" /\ mexec.pc = "idle"
  /\ LET index == FindIndex(operations, id)
     IN IF index = 0 THEN UNCHANGED operations
        ELSE IF operations[index].status = "running" THEN UNCHANGED operations
        ELSE operations' = [operations EXCEPT ![index].status = "cancelled"]
  /\ UNCHANGED <<impl, operationIdCounter, connected, connectedAt, npmUser, orgs, otp,
                 mexec, rexec>>

\* MockConnectorStateManager.removeOperation
removeOperation(id) ==
  /\ impl = "mock" /\ mexec.pc = "idle"
  /\ LET index == FindIndex(operations, id)
     IN IF index = 0 THEN UNCHANGED operations
        ELSE IF operations[index].status = "running" THEN UNCHANGED operations
        ELSE operations' = Splice(operations, index)
  /\ UNCHANGED <<impl, operationIdCounter, connected, connectedAt, npmUser, orgs, otp,
                 mexec, rexec>>

\* what clearOperations returns
clearOperationsReturns == Len(Filter(operations, Statuses \ {"running"}))

\* MockConnectorStateManager.clearOperations
clearOperations ==
  /\ impl = "mock" /\ mexec.pc = "idle"
  /\ operations' = Filter(operations, {"running"})
  /\ UNCHANGED <<impl, operationIdCounter, connected, connectedAt, npmUser, orgs, otp,
                 mexec, rexec>>

\* whether approveOperation returns the operation (TRUE) or null (FALSE)
approveOperationReturns(id) ==
  LET index == FindIndex(operations, id)
  IN index # 0 /\ operations[index].status = "pending"

\* a variant of approveOperation that does not test the status
approveOperationAnyStatus(id) ==
  /\ impl = "mock" /\ mexec.pc = "idle"
  /\ LET index == FindIndex(operations, id)
     IN IF index = 0
        THEN UNCHANGED operations
        ELSE operations' = [operations EXCEPT ![index].status = "approved"]
  /\ UNCHANGED <<impl, operationIdCounter, connected, connectedAt, npmUser, orgs, otp,
                 mexec, rexec>>

\* MockConnectorStateManager.approveOperation
approveOperation(id) ==
  /\ impl = "mock" /\ mexec.pc = "idle"
  /\ LET index == FindIndex(operations, id)
     IN IF index = 0 \/ operations[index].status # "pending"
        THEN UNCHANGED operations
        ELSE operations' = [operations EXCEPT ![index].status = "approved"]
  /\ UNCHANGED <<impl, operationIdCounter, connected, connectedAt, npmUser, orgs, otp,
                 mexec, rexec>>

\* what approveAll returns
approveAllReturns == Len(Filter(operations, {"pending"}))

\* a variant of approveAll that also approves the failed operations
approveAllAndFailed ==
  /\ impl = "mock" /\ mexec.pc = "idle"
  /\ operations' = [i \in 1..Len(operations) |->
                      IF operations[i].status \in {"pending", "failed"}
                      THEN [operations[i] EXCEPT !.status = "approved"]
                      ELSE operations[i]]
  /\ UNCHANGED <<impl, operationIdCounter, connected, connectedAt, npmUser, orgs, otp,
                 mexec, rexec>>

\* MockConnectorStateManager.approveAll
approveAll ==
  /\ impl = "mock" /\ mexec.pc = "idle"
  /\ operations' = [i \in 1..Len(operations) |->
                      IF operations[i].status = "pending"
                      THEN [operations[i] EXCEPT !.status = "approved"]
                      ELSE operations[i]]
  /\ UNCHANGED <<impl, operationIdCounter, connected, connectedAt, npmUser, orgs, otp,
                 mexec, rexec>>

\* whether retryOperation returns the operation (TRUE) or null (FALSE)
retryOperationReturns(id) ==
  LET index == FindIndex(operations, id)
  IN index # 0 /\ operations[index].status = "failed"

\* a variant of retryOperation that keeps the previous result
retryOperationKeepsResult(id) ==
  /\ impl = "mock" /\ mexec.pc = "idle"
  /\ LET index == FindIndex(operations, id)
     IN IF index = 0 \/ operations[index].status # "failed"
        THEN UNCHANGED operations
        ELSE operations' = [operations EXCEPT ![index].status = "approved"]
  /\ UNCHANGED <<impl, operationIdCounter, connected, connectedAt, npmUser, orgs, otp,
                 mexec, rexec>>

\* MockConnectorStateManager.retryOperation
retryOperation(id) ==
  /\ impl = "mock" /\ mexec.pc = "idle"
  /\ LET index == FindIndex(operations, id)
     IN IF index = 0 \/ operations[index].status # "failed"
        THEN UNCHANGED operations
        ELSE operations' = [operations EXCEPT ![index].status = "approved",
                                              ![index].result = None]
  /\ UNCHANGED <<impl, operationIdCounter, connected, connectedAt, npmUser, orgs, otp,
                 mexec, rexec>>

\* ----------------------------------------------------------- mock: execute
\* org.startsWith('@') ? org : `@${org}`
NormalizeOrg(org) == IF Len(org) > 0 /\ Head(org) = "@" THEN org ELSE <<"@">> \o org

\* { users: {}, teams: [], teamMembers: {} }
EmptyOrg == [users |-> EmptyObject, teams |-> <<>>, teamMembers |-> EmptyObject]

\* MockConnectorStateManager.applyOperationEffect, on the org map o
applyOperationEffect(op, o) ==
  LET params == op.params
      given(k) == Has(params, k) /\ params[k] # <<>>
  IN CASE op.type = "org:add-user" ->
            IF given("org") /\ given("user")
            THEN LET normalizedOrg == NormalizeOrg(params["org"])
                     role == IF Has(params, "role") THEN params["role"] ELSE <<"developer">>
                     o1 == IF Has(o, normalizedOrg) THEN o ELSE Put(o, normalizedOrg, EmptyOrg)
                 IN [o1 EXCEPT ![normalizedOrg].users = Put(@, params["user"], role)]
            ELSE o
       [] op.type = "org:rm-user" ->
            IF given("org") /\ given("user")
            THEN LET normalizedOrg == NormalizeOrg(params["org"])
                 IN IF Has(o, normalizedOrg)
                    THEN [o EXCEPT ![normalizedOrg].users = Delete(@, params["user"])]
                    ELSE o
            ELSE o
       [] op.type = "org:set-role" ->
            IF given("org") /\ given("user") /\ given("role")
            THEN LET normalizedOrg == NormalizeOrg(params["org"])
                 IN IF Has(o, normalizedOrg)
                    THEN [o EXCEPT ![normalizedOrg].users = Put(@, params["user"], params["role"])]
                    ELSE o
            ELSE o
       [] op.type = "team:create" ->
            IF given("org") /\ given("team")
            THEN LET normalizedOrg == NormalizeOrg(params["org"])
                     team == params["team"]
                     o1 == IF Has(o, normalizedOrg) THEN o ELSE Put(o, normalizedOrg, EmptyOrg)
                     teams == o1[normalizedOrg].teams
                 IN [o1 EXCEPT ![normalizedOrg].teams =
                                  IF \E k \in 1..Len(teams) : teams[k] = team
                                  THEN teams ELSE Append(teams, team),
                               ![normalizedOrg].teamMembers = Put(@, team, <<>>)]
            ELSE o

RECURSIVE visit(_, _, _)
\* the closure visit of sortByDependencies; st is [result, visited]
visit(op, ops, st) ==
  IF op.id \in st.visited THEN st
  ELSE LET st1 == [st EXCEPT !.visited = @ \cup {op.id}]
           dep == FindIndex(ops, op.dependsOn)
           st2 == IF op.dependsOn # 0 /\ dep # 0 THEN visit(ops[dep], ops, st1) ELSE st1
       IN [st2 EXCEPT !.result = Append(@, op.id)]

RECURSIVE visitFrom(_, _, _)
\* for (const op of operations) visit(op), from index i
visitFrom(i, ops, st) ==
  IF i > Len(ops) THEN st ELSE visitFrom(i + 1, ops, visit(ops[i], ops, st))

\* a variant of sortByDependencies that keeps the insertion order
sortByInsertion(ops) == [i \in 1..Len(ops) |-> ops[i].id]

\* MockConnectorStateManager.sortByDependencies: the ids in execution order
sortByDependencies(ops) == visitFrom(1, ops, [result |-> <<>>, visited |-> {}]).result

\* the loop goes on with operation f.i, or is over: return { results }
Continue(f) ==
  IF f.i > Len(f.sorted) THEN [f EXCEPT !.pc = "returned"] ELSE [f EXCEPT !.pc = "loop"]

\* executeOperations, up to the loop: select the approved operations and sort them
executeOperations(o) ==
  /\ impl = "mock" /\ mexec.pc = "idle"
  /\ mexec' = Continue([pc |-> "loop",
                        sorted |-> sortByDependencies(Filter(operations, {"approved"})),
                        i |-> 1, otp |-> o, results |-> <<>>, otpRequired |-> FALSE])
  /\ UNCHANGED <<impl, operations, operationIdCounter, connected, connectedAt, npmUser,
                 orgs, otp, rexec>>

\* a variant of the dependency check that skips only when the dependency is missing
DependencyUnmetIfMissing(op) ==
  op.dependsOn # 0 /\ FindIndex(operations, op.dependsOn) = 0

\* a variant of the dependency check that lets an operation run when its
\* dependency is missing
DependencyUnmetIfPresent(op) ==
  /\ op.dependsOn # 0
  /\ LET dep == FindIndex(operations, op.dependsOn)
     IN IF dep = 0 THEN FALSE ELSE operations[dep].status # "completed"

\* whether the dependency check of the loop skips operation op
DependencyUnmet(op) ==
  /\ op.dependsOn # 0
  /\ LET dep == FindIndex(operations, op.dependsOn)
     IN IF dep = 0 THEN TRUE ELSE operations[dep].status # "completed"

\* the operation the loop of executeOperations is at
CurrentIndex == FindIndex(operations, mexec.sorted[mexec.i])

\* a variant of executeSkip that marks the skipped operation failed
executeSkipFails ==
  /\ impl = "mock" /\ mexec.pc = "loop"
  /\ DependencyUnmet(operations[CurrentIndex])
  /\ operations' = [operations EXCEPT ![CurrentIndex].status = "failed"]
  /\ mexec' = Continue([mexec EXCEPT !.i = @ + 1])
  /\ UNCHANGED <<impl, operationIdCounter, connected, connectedAt, npmUser, orgs, otp, rexec>>

\* the loop: `continue` on an unmet dependency
executeSkip ==
  /\ impl = "mock" /\ mexec.pc = "loop"
  /\ DependencyUnmet(operations[CurrentIndex])
  /\ mexec' = Continue([mexec EXCEPT !.i = @ + 1])
  /\ UNCHANGED <<impl, operations, operationIdCounter, connected, connectedAt, npmUser,
                 orgs, otp, rexec>>

\* the loop: op.status = 'running'
executeRun ==
  /\ impl = "mock" /\ mexec.pc = "loop"
  /\ ~DependencyUnmet(operations[CurrentIndex])
  /\ operations' = [operations EXCEPT ![CurrentIndex].status = "running"]
  /\ mexec' = [mexec EXCEPT !.pc = "running"]
  /\ UNCHANGED <<impl, operationIdCounter, connected, connectedAt, npmUser, orgs, otp, rexec>>

\* the result built from a configured result
ConfiguredResult(c) ==
  [exitCode |-> IF Has(c, "exitCode") THEN c.exitCode ELSE 1,
   requiresOtp |-> IF Has(c, "requiresOtp") THEN c.requiresOtp ELSE FALSE,
   stderr |-> ""]

\* the result of the default branch
DefaultResult == [exitCode |-> 0, requiresOtp |-> FALSE, stderr |-> ""]

\* a variant of the halt test that never halts
OtpMissingNever(result, o) == FALSE

\* a variant of the halt test that also halts on a nonzero exit code
OtpMissingOrFailed(result, o) == (result.requiresOtp /\ ~Truthy(o)) \/ result.exitCode # 0

\* a variant of the halt test that does not look at the otp supplied
OtpMissingIgnoresOtp(result, o) == result.requiresOtp

\* result.requiresOtp && !options?.otp
OtpMissing(result, o) == result.requiresOtp /\ ~Truthy(o)

\* a variant of executeFinish that notes the missing OTP and goes on with the loop
executeFinishNoHalt(configuredResult) ==
  /\ impl = "mock" /\ mexec.pc = "running"
  /\ LET idx == CurrentIndex
         op == operations[idx]
     IN IF configuredResult # None
        THEN LET result == ConfiguredResult(configuredResult[1])
             IN /\ operations' = [operations EXCEPT
                      ![idx].result = Some(result),
                      ![idx].status = IF result.exitCode = 0 THEN "completed" ELSE "failed"]
                /\ orgs' = orgs
                /\ mexec' = Continue([mexec EXCEPT !.i = @ + 1,
                       !.otpRequired = @ \/ OtpMissing(result, mexec.otp),
                       !.results = Append(@, [id |-> op.id, result |-> result])])
        ELSE /\ operations' = [operations EXCEPT ![idx].result = Some(DefaultResult),
                                                 ![idx].status = "completed"]
             /\ orgs' = applyOperationEffect(op, orgs)
             /\ mexec' = Continue([mexec EXCEPT !.i = @ + 1,
                            !.results = Append(@, [id |-> op.id, result |-> DefaultResult])])
  /\ UNCHANGED <<impl, operationIdCounter, connected, connectedAt, npmUser, otp, rexec>>

\* a variant of executeFinish that leaves the operation running at an OTP halt
executeFinishLeavesRunning(configuredResult) ==
  /\ impl = "mock" /\ mexec.pc = "running"
  /\ LET idx == CurrentIndex
         op == operations[idx]
     IN IF configuredResult # None
        THEN LET result == ConfiguredResult(configuredResult[1])
             IN /\ operations' = [operations EXCEPT
                      ![idx].result = Some(result),
                      ![idx].status = IF OtpMissing(result, mexec.otp) THEN "running"
                                       ELSE IF result.exitCode = 0 THEN "completed"
                                       ELSE "failed"]
                /\ orgs' = orgs
                /\ IF OtpMissing(result, mexec.otp)
                   THEN mexec' = [mexec EXCEPT !.pc = "returned", !.otpRequired = TRUE,
                                    !.results = Append(@, [id |-> op.id, result |-> result])]
                   ELSE mexec' = Continue([mexec EXCEPT !.i = @ + 1,
                                    !.results = Append(@, [id |-> op.id, result |-> result])])
        ELSE /\ operations' = [operations EXCEPT ![idx].result = Some(DefaultResult),
                                                 ![idx].status = "completed"]
             /\ orgs' = applyOperationEffect(op, orgs)
             /\ mexec' = Continue([mexec EXCEPT !.i = @ + 1,
                            !.results = Append(@, [id |-> op.id, result |-> DefaultResult])])
  /\ UNCHANGED <<impl, operationIdCounter, connected, connectedAt, npmUser, otp, rexec>>

\* the loop: record the configured result, or succeed and apply the effect
executeFinish(configuredResult) ==
  /\ impl = "mock" /\ mexec.pc = "running"
  /\ LET idx == CurrentIndex
         op == operations[idx]
     IN IF configuredResult # None
        THEN LET result == ConfiguredResult(configuredResult[1])
             IN /\ operations' = [operations EXCEPT
                      ![idx].result = Some(result),
                      ![idx].status = IF result.exitCode = 0 THEN "completed" ELSE "failed"]
                /\ orgs' = orgs
                /\ IF OtpMissing(result, mexec.otp)
                   THEN mexec' = [mexec EXCEPT !.pc = "returned", !.otpRequired = TRUE,
                                    !.results = Append(@, [id |-> op.id, result |-> result])]
                   ELSE mexec' = Continue([mexec EXCEPT !.i = @ + 1,
                                    !.results = Append(@, [id |-> op.id, result |-> result])])
        ELSE /\ operations' = [operations EXCEPT ![idx].result = Some(DefaultResult),
                                                 ![idx].status = "completed"]
             /\ orgs' = applyOperationEffect(op, orgs)
             /\ mexec' = Continue([mexec EXCEPT !.i = @ + 1,
                            !.results = Append(@, [id |-> op.id, result |-> DefaultResult])])
  /\ UNCHANGED <<impl, operationIdCounter, connected, connectedAt, npmUser, otp, rexec>>

\* the caller has the value executeOperations returned
executeReturn ==
  /\ impl = "mock" /\ mexec.pc = "returned"
  /\ mexec' = IdleFrame
  /\ UNCHANGED <<impl, operations, operationIdCounter, connected, connectedAt, npmUser,
                 orgs, otp, rexec>>

\* -------------------------------------------------------- mock: composable
\* MockConnectorStateManager.addOperations: addOperation for each input in turn
addOperations(inputs) ==
  /\ impl = "mock" /\ mexec.pc = "idle"
  /\ operationIdCounter + Len(inputs) <= MaxOps
  /\ operationIdCounter' = operationIdCounter + Len(inputs)
  /\ operations' = operations \o
       [k \in 1..Len(inputs) |-> NewOperation(operationIdCounter + k, inputs[k], 0)]
  /\ UNCHANGED <<impl, connected, connectedAt, npmUser, orgs, otp, mexec, rexec>>

\* state.value.operations: syncState copies the state manager's queue after every
\* call the composable makes, and the composable makes none without it
stateOperations == operations

\* a variant of completedOperations that lists every failed operation
completedOperationsAllFailed ==
  SelectSeq(stateOperations, LAMBDA op : op.status \in {"completed", "failed"})

\* op.result?.requiresOtp
requiresOtp(op) == op.result # None /\ op.result[1].requiresOtp

\* the computed completedOperations
completedOperations ==
  SelectSeq(stateOperations,
            LAMBDA op : op.status = "completed" \/ (op.status = "failed" /\ ~requiresOtp(op)))

\* the computed activeOperations
activeOperations ==
  SelectSeq(stateOperations,
            LAMBDA op : \/ op.status = "pending"
                        \/ op.status = "approved"
                        \/ op.status = "running"
                        \/ (op.status = "failed" /\ requiresOtp(op)))

\* the early return of an action of the composable: nothing is called
EarlyReturn ==
  /\ impl = "mock" /\ mexec.pc = "idle"
  /\ ~connected
  /\ UNCHANGED <<impl, operations, operationIdCounter, connected, connectedAt, npmUser,
                 orgs, otp, mexec, rexec>>

\* a variant of the composable's addOperation without the isConnected test
composableAddOperationAlways(input, dependsOn) == addOperation(input, dependsOn)

\* the composable's addOperation
composableAddOperation(input, dependsOn) ==
  IF ~connected THEN EarlyReturn ELSE addOperation(input, dependsOn)

\* what it returns: null, or the new operation
composableAddOperationReturns(input, dependsOn) ==
  IF ~connected THEN None
  ELSE Some(NewOperation(operationIdCounter + 1, input, dependsOn))

\* the composable's addOperations
composableAddOperations(inputs) ==
  IF ~connected THEN EarlyReturn ELSE addOperations(inputs)

\* what it returns: [], or the new operations
composableAddOperationsReturns(inputs) ==
  IF ~connected THEN <<>>
  ELSE [k \in 1..Len(inputs) |-> NewOperation(operationIdCounter + k, inputs[k], 0)]

\* the composable's removeOperation, and what it returns
composableRemoveOperation(id) ==
  IF ~connected THEN EarlyReturn ELSE removeOperation(id)

composableRemoveOperationReturns(id) ==
  IF ~connected THEN FALSE ELSE removeOperationReturns(id)

\* the composable's clearOperations, and what it returns
composableClearOperations ==
  IF ~connected THEN EarlyReturn ELSE clearOperations

composableClearOperationsReturns ==
  IF ~connected THEN 0 ELSE clearOperationsReturns

\* the composable's approveOperation, and what it returns: op !== null
composableApproveOperation(id) ==
  IF ~connected THEN EarlyReturn ELSE approveOperation(id)

composableApproveOperationReturns(id) ==
  IF ~connected THEN FALSE ELSE approveOperationReturns(id)

\* the composable's retryOperation, and what it returns: op !== null
composableRetryOperation(id) ==
  IF ~connected THEN EarlyReturn ELSE retryOperation(id)

composableRetryOperationReturns(id) ==
  IF ~connected THEN FALSE ELSE retryOperationReturns(id)

\* the composable's approveAll, and what it returns
composableApproveAll ==
  IF ~connected THEN EarlyReturn ELSE approveAll

composableApproveAllReturns ==
  IF ~connected THEN 0 ELSE approveAllReturns

\* the composable's executeOperations, up to the loop of the state manager's
composableExecuteOperations(o) ==
  IF ~connected THEN EarlyReturn ELSE executeOperations(o)

\* what it returns, f being the frame of the state manager's call when it is over
composableExecuteOperationsReturns(f) ==
  IF ~connected THEN [success |-> FALSE]
  ELSE [success |-> TRUE, otpRequired |-> f.otpRequired]

\* ------------------------------------------------------------- real: auth
\* String.prototype.replace(c, ''): the first occurrence of chunk c removed
ReplaceFirst(str, c) ==
  IF \E i \in 1..Len(str) : str[i] = c
  THEN LET i == CHOOSE k \in 1..Len(str) : str[k] = c /\ \A j \in 1..(k - 1) : str[j] # c
       IN SubSeq(str, 1, i - 1) \o SubSeq(str, i + 1, Len(str))
  ELSE str

\* createConnectorApp: validateToken
validateToken(authHeader) ==
  IF authHeader = <<>> THEN FALSE
  ELSE ReplaceFirst(authHeader, "Bearer ") = <<Secret>>

\* POST /connect: the status answered
PostConnectStatus(token) == IF token # Secret THEN 401 ELSE 200

\* a variant of POST /connect that does not compare the token
PostConnectAnyToken(token, whoami) ==
  /\ impl = "real"
  /\ connectedAt' = DateNow /\ npmUser' = whoami
  /\ UNCHANGED <<impl, operations, operationIdCounter, connected, orgs, otp, mexec, rexec>>

\* POST /connect
PostConnect(token, whoami) ==
  /\ impl = "real"
  /\ IF token # Secret
     THEN UNCHANGED <<connectedAt, npmUser>>
     ELSE connectedAt' = DateNow /\ npmUser' = whoami
  /\ UNCHANGED <<impl, operations, operationIdCounter, connected, orgs, otp, mexec, rexec>>

\* ------------------------------------------------------------ real: queue
\* the operation POST /operations builds: the body's dependsOn is not read;
\* reqDependsOn keeps what the body held
NewRealOperation(id, body, dependsOn) ==
  [id |-> id, status |-> "pending", dependsOn |-> 0, reqDependsOn |-> dependsOn,
   result |-> None] @@ Pick(body, {"type", "params"})

\* POST /operations: the status answered; the body is not examined
PostOperationsStatus(h, body) == IF ~validateToken(h) THEN 401 ELSE 200

\* a variant of POST /operations that puts the operation at the head of the queue
PostOperationsUnshift(h, body, dependsOn) ==
  /\ impl = "real"
  /\ validateToken(h) => operationIdCounter < MaxOps
  /\ IF ~validateToken(h)
     THEN UNCHANGED <<operations, operationIdCounter>>
     ELSE /\ operationIdCounter' = operationIdCounter + 1
          /\ operations' = <<NewRealOperation(operationIdCounter + 1, body, dependsOn)>>
                             \o operations
  /\ UNCHANGED <<impl, connected, connectedAt, npmUser, orgs, otp, mexec, rexec>>

\* POST /operations
PostOperations(h, body, dependsOn) ==
  /\ impl = "real"
  /\ validateToken(h) => operationIdCounter < MaxOps
  /\ IF ~validateToken(h)
     THEN UNCHANGED <<operations, operationIdCounter>>
     ELSE /\ operationIdCounter' = operationIdCounter + 1
          /\ operations' = Append(operations,
                                  NewRealOperation(operationIdCounter + 1, body, dependsOn))
  /\ UNCHANGED <<impl, connected, connectedAt, npmUser, orgs, otp, mexec, rexec>>

\* GET /state: the status and the data answered
GetState(h) ==
  IF ~validateToken(h)
  THEN [status |-> 401]
  ELSE [status |-> 200, npmUser |-> npmUser, operations |-> operations,
        hasOtp |-> Truthy(otp)]

\* POST /otp
PostOtp(h, bodyOtp) ==
  /\ impl = "real"
  /\ IF ~validateToken(h)
     THEN UNCHANGED otp
     ELSE otp' = IF bodyOtp = Undefined THEN Null ELSE bodyOtp
  /\ UNCHANGED <<impl, operations, operationIdCounter, connected, connectedAt, npmUser,
                 orgs, mexec, rexec>>

\* POST /approve: the status answered
PostApproveStatus(h, id) ==
  LET index == FindIndex(operations, id)
  IN IF ~validateToken(h) THEN 401
     ELSE IF index = 0 THEN 404
     ELSE IF operations[index].status # "pending" THEN 400
     ELSE 200

\* a variant of POST /approve that does not test the status
PostApproveAnyStatus(h, id) ==
  /\ impl = "real"
  /\ LET index == FindIndex(operations, id)
     IN IF ~validateToken(h) THEN UNCHANGED operations
        ELSE IF index = 0 THEN UNCHANGED operations
        ELSE operations' = [operations EXCEPT ![index].status = "approved"]
  /\ UNCHANGED <<impl, operationIdCounter, connected, connectedAt, npmUser, orgs, otp,
                 mexec, rexec>>

\* POST /approve
PostApprove(h, id) ==
  /\ impl = "real"
  /\ LET index == FindIndex(operations, id)
     IN IF ~validateToken(h) THEN UNCHANGED operations
        ELSE IF index = 0 THEN UNCHANGED operations
        ELSE IF operations[index].status # "pending" THEN UNCHANGED operations
        ELSE operations' = [operations EXCEPT ![index].status = "approved"]
  /\ UNCHANGED <<impl, operationIdCounter, connected, connectedAt, npmUser, orgs, otp,
                 mexec, rexec>>

\* POST /approve-all: data.approved
PostApproveAllCount == Len(Filter(operations, {"pending"}))

\* POST /approve-all
PostApproveAll(h) ==
  /\ impl = "real"
  /\ IF ~validateToken(h)
     THEN UNCHANGED operations
     ELSE operations' = [i \in 1..Len(operations) |->
                           IF operations[i].status = "pending"
                           THEN [operations[i] EXCEPT !.status = "approved"]
                           ELSE operations[i]]
  /\ UNCHANGED <<impl, operationIdCounter, connected, connectedAt, npmUser, orgs, otp,
                 mexec, rexec>>

\* DELETE /operations: the status answered
DeleteOperationsStatus(h, id) ==
  LET index == FindIndex(operations, id)
  IN IF ~validateToken(h) THEN 401
     ELSE IF index = 0 THEN 404
     ELSE IF operations[index].status = "running" THEN 400
     ELSE 200

\* a variant of DELETE /operations that also removes a running operation
DeleteOperationsAnyStatus(h, id) ==
  /\ impl = "real"
  /\ LET index == FindIndex(operations, id)
     IN IF ~validateToken(h) THEN UNCHANGED operations
        ELSE IF index = 0 THEN UNCHANGED operations
        ELSE operations' = Splice(operations, index)
  /\ UNCHANGED <<impl, operationIdCounter, connected, connectedAt, npmUser, orgs, otp,
                 mexec, rexec>>

\* DELETE /operations
DeleteOperations(h, id) ==
  /\ impl = "real"
  /\ LET index == FindIndex(operations, id)
     IN IF ~validateToken(h) THEN UNCHANGED operations
        ELSE IF index = 0 THEN UNCHANGED operations
        ELSE IF operations[index].status = "running" THEN UNCHANGED operations
        ELSE operations' = Splice(operations, index)
  /\ UNCHANGED <<impl, operationIdCounter, connected, connectedAt, npmUser, orgs, otp,
                 mexec, rexec>>

\* DELETE /operations/all: data.removed
DeleteAllCount == Len(Filter(operations, Statuses \ {"running"}))

\* a variant of DELETE /operations/all that empties the queue
DeleteAllAlsoRunning(h) ==
  /\ impl = "real"
  /\ IF ~validateToken(h)
     THEN UNCHANGED operations
     ELSE operations' = <<>>
  /\ UNCHANGED <<impl, operationIdCounter, connected, connectedAt, npmUser, orgs, otp,
                 mexec, rexec>>

\* DELETE /operations/all
DeleteAll(h) ==
  /\ impl = "real"
  /\ IF ~validateToken(h)
     THEN UNCHANGED operations
     ELSE operations' = Filter(operations, {"running"})
  /\ UNCHANGED <<impl, operationIdCounter, connected, connectedAt, npmUser, orgs, otp,
                 mexec, rexec>>

\* ---------------------------------------------------------- real: execute
\* the operation types executeOperation has a case for
ExecutableTypes ==
  {"org:add-user", "org:rm-user", "team:create", "team:destroy", "team:add-user",
   "team:rm-user", "access:grant", "access:revoke", "owner:add", "owner:rm"}

\* the enumeration OperationType
OperationType == ExecutableTypes \cup {"org:set-role"}

\* params.k of an operation; a word is a sequence of chunks, <<>> for undefined
Param(params, k) == IF Has(params, k) THEN params[k] ELSE <<>>

\* the npm-client wrappers: the arguments they hand to execNpm
orgAddUser(org, user, role) == <<(<<"org">>), <<"set">>, org, user, role>>
orgRemoveUser(org, user) == <<(<<"org">>), <<"rm">>, org, user>>
teamCreate(scopeTeam) == <<(<<"team">>), <<"create">>, scopeTeam>>
teamDestroy(scopeTeam) == <<(<<"team">>), <<"destroy">>, scopeTeam>>
teamAddUser(scopeTeam, user) == <<(<<"team">>), <<"add">>, scopeTeam, user>>
teamRemoveUser(scopeTeam, user) == <<(<<"team">>), <<"rm">>, scopeTeam, user>>
accessGrant(permission, scopeTeam, pkg) ==
  <<(<<"access">>), <<"grant">>, permission, scopeTeam, pkg>>
accessRevoke(scopeTeam, pkg) == <<(<<"access">>), <<"revoke">>, scopeTeam, pkg>>
ownerAdd(user, pkg) == <<(<<"owner">>), <<"add">>, user, pkg>>
ownerRemove(user, pkg) == <<(<<"owner">>), <<"rm">>, user, pkg>>

\* executeOperation: the switch, for a type it has a case for
NpmArgs(type, params) ==
  LET p(k) == Param(params, k)
  IN CASE type = "org:add-user" -> orgAddUser(p("org"), p("user"), p("role"))
       [] type = "org:rm-user" -> orgRemoveUser(p("org"), p("user"))
       [] type = "team:create" -> teamCreate(p("scopeTeam"))
       [] type = "team:destroy" -> teamDestroy(p("scopeTeam"))
       [] type = "team:add-user" -> teamAddUser(p("scopeTeam"), p("user"))
       [] type = "team:rm-user" -> teamRemoveUser(p("scopeTeam"), p("user"))
       [] type = "access:grant" -> accessGrant(p("permission"), p("scopeTeam"), p("pkg"))
       [] type = "access:revoke" -> accessRevoke(p("scopeTeam"), p("pkg"))
       [] type = "owner:add" -> ownerAdd(p("user"), p("pkg"))
       [] type = "owner:rm" -> ownerRemove(p("user"), p("pkg"))

\* how execAsync ends: the command exits with 0, exits with another status, is
\* killed at the timeout (err.code is null), or cannot be spawned (err.code is a
\* string such as 'ENOENT')
ExecOutcomes == {"resolved", "exit", "timeout", "spawn"}

\* execNpm: the command line, `--otp` appended for a truthy otp
execNpmCmd(args, o) ==
  <<(<<"npm">>)>> \o args \o (IF Truthy(o) THEN <<(<<"--otp">>), <<o>>>> ELSE <<>>)

\* a variant of execNpm's result with `err.code ?? 0` in the catch block
execNpmResultOrZero(outcome) ==
  CASE outcome = "resolved" -> [exitCode |-> 0, requiresOtp |-> FALSE, stderr |-> ""]
    [] outcome = "exit" -> [exitCode |-> 1, requiresOtp |-> FALSE, stderr |-> "npm error"]
    [] outcome = "timeout" -> [exitCode |-> 0, requiresOtp |-> FALSE, stderr |-> "Error"]
    [] outcome = "spawn" -> [exitCode |-> ENOENT, requiresOtp |-> FALSE, stderr |-> "Error"]

\* execNpm: the result of the try block, or of the catch block (err.code ?? 1)
execNpmResult(outcome) ==
  CASE outcome = "resolved" -> [exitCode |-> 0, requiresOtp |-> FALSE, stderr |-> ""]
    [] outcome = "exit" -> [exitCode |-> 1, requiresOtp |-> FALSE, stderr |-> "npm error"]
    [] outcome = "timeout" -> [exitCode |-> 1, requiresOtp |-> FALSE, stderr |-> "Error"]
    [] outcome = "spawn" -> [exitCode |-> ENOENT, requiresOtp |-> FALSE, stderr |-> "Error"]

\* execNpm
execNpm(args, o, outcome) == [cmd |-> execNpmCmd(args, o), result |-> execNpmResult(outcome)]

\* a variant of the default case whose result has exitCode 0
UnknownOperationTypeExitZero ==
  [exitCode |-> 0, requiresOtp |-> FALSE, stderr |-> "Unknown operation type"]

\* executeOperation: the result of the default case
UnknownOperationType ==
  [exitCode |-> 1, requiresOtp |-> FALSE, stderr |-> "Unknown operation type"]

\* executeOperation rejects: a property of the undefined params is read
TypeError == [thrown |-> "TypeError"]

\* executeOperation: what it can resolve to, or reject with, for the otp o
executeOperation(op, o) ==
  IF Has(op, "type") /\ op.type \in ExecutableTypes
  THEN IF ~Has(op, "params")
       THEN {TypeError}
       ELSE {execNpm(NpmArgs(op.type, op.params), o, outcome).result : outcome \in ExecOutcomes}
  ELSE {UnknownOperationType}

\* a write to the status of the operation object id; an object that was removed
\* from the queue is no longer seen there
WithStatus(ops, id, status) ==
  LET index == FindIndex(ops, id)
  IN IF index = 0 THEN ops ELSE [ops EXCEPT ![index].status = status]

\* a variant of the write of the result that marks every operation failed
WithResultFailed(ops, id, result) ==
  LET index == FindIndex(ops, id)
  IN IF index = 0 THEN ops
     ELSE [ops EXCEPT ![index].result = Some(result), ![index].status = "failed"]

\* op.result = result; op.status = completed or failed
WithResult(ops, id, result) ==
  LET index == FindIndex(ops, id)
  IN IF index = 0 THEN ops
     ELSE [ops EXCEPT ![index].result = Some(result),
                      ![index].status = IF result.exitCode = 0 THEN "completed" ELSE "failed"]

\* the captured operation objects: what of them does not change
Captured(ops) ==
  [i \in 1..Len(ops) |-> Pick(ops[i], {"id", "type", "params"})]

\* the request slot a new POST /execute takes
FreeRequest(e) == rexec[e].pc = "idle" /\ \A f \in 1..(e - 1) : rexec[f].pc # "idle"

\* a variant of POST /execute that reads an otp from the request body and passes
\* it to the first command in place of the stored one
PostExecuteBodyOtp(h, e) ==
  /\ impl = "real"
  /\ FreeRequest(e)
  /\ IF ~validateToken(h)
     THEN UNCHANGED <<operations, rexec>>
     ELSE LET approvedOps == Captured(Filter(operations, {"approved"}))
          IN IF approvedOps = <<>>
             THEN UNCHANGED <<operations, rexec>>
             ELSE /\ operations' = WithStatus(operations, approvedOps[1].id, "running")
                  /\ \E bodyOtp \in OtpBodies :
                       rexec' = [rexec EXCEPT ![e] =
                         [pc |-> "await", approvedOps |-> approvedOps, i |-> 1,
                          otp |-> IF bodyOtp = Undefined THEN otp ELSE bodyOtp,
                          results |-> <<>>]]
  /\ UNCHANGED <<impl, operationIdCounter, connected, connectedAt, npmUser, orgs, otp, mexec>>

\* POST /execute, up to its first await: select the approved operations, set the
\* first one running and start its command
PostExecute(h, e) ==
  /\ impl = "real"
  /\ FreeRequest(e)
  /\ IF ~validateToken(h)
     THEN UNCHANGED <<operations, rexec>>
     ELSE LET approvedOps == Captured(Filter(operations, {"approved"}))
          IN IF approvedOps = <<>>
             THEN UNCHANGED <<operations, rexec>>
             ELSE /\ operations' = WithStatus(operations, approvedOps[1].id, "running")
                  /\ rexec' = [rexec EXCEPT ![e] =
                       [pc |-> "await", approvedOps |-> approvedOps, i |-> 1,
                        otp |-> otp, results |-> <<>>]]
  /\ UNCHANGED <<impl, operationIdCounter, connected, connectedAt, npmUser, orgs, otp, mexec>>

\* a variant of the response data that leaves out the result just obtained
ExecuteResponseWithoutLast(e, result) == rexec[e].results

\* POST /execute: data of the response, sent when the last command resolved to result
ExecuteResponse(e, result) ==
  LET r == rexec[e]
  IN Append(r.results, [id |-> r.approvedOps[r.i].id, result |-> result])

\* POST /execute: the status answered when the command in flight ends with result
ExecuteStatus(e, result) == IF result = TypeError THEN 500 ELSE 200

\* a variant of ExecuteResume that clears the stored otp once a command used it
ExecuteResumeClearsOtp(e, result) ==
  /\ impl = "real"
  /\ rexec[e].pc = "await"
  /\ LET r == rexec[e]
         op == r.approvedOps[r.i]
         recorded == WithResult(operations, op.id, result)
         results == ExecuteResponse(e, result)
     IN /\ result \in executeOperation(op, IF r.otp = Null THEN Undefined ELSE r.otp)
        /\ IF result = TypeError
           THEN /\ UNCHANGED operations
                /\ rexec' = [rexec EXCEPT ![e] = IdleRequest]
           ELSE IF r.i < Len(r.approvedOps)
           THEN /\ operations' = WithStatus(recorded, r.approvedOps[r.i + 1].id, "running")
                /\ rexec' = [rexec EXCEPT ![e].i = r.i + 1, ![e].otp = otp,
                                          ![e].results = results]
           ELSE /\ operations' = recorded
                /\ rexec' = [rexec EXCEPT ![e] = IdleRequest]
  /\ otp' = Null
  /\ UNCHANGED <<impl, operationIdCounter, connected, connectedAt, npmUser, orgs, mexec>>

\* POST /execute, from the await of executeOperation to the next one: record the
\* result, then set the next operation running or respond; a rejection ends the
\* handler where it is
ExecuteResume(e, result) ==
  /\ impl = "real"
  /\ rexec[e].pc = "await"
  /\ LET r == rexec[e]
         op == r.approvedOps[r.i]
         recorded == WithResult(operations, op.id, result)
         results == ExecuteResponse(e, result)
     IN /\ result \in executeOperation(op, IF r.otp = Null THEN Undefined ELSE r.otp)
        /\ IF result = TypeError
           THEN /\ UNCHANGED operations
                /\ rexec' = [rexec EXCEPT ![e] = IdleRequest]
           ELSE IF r.i < Len(r.approvedOps)
           THEN /\ operations' = WithStatus(recorded, r.approvedOps[r.i + 1].id, "running")
                /\ rexec' = [rexec EXCEPT ![e].i = r.i + 1, ![e].otp = otp,
                                          ![e].results = results]
           ELSE /\ operations' = recorded
                /\ rexec' = [rexec EXCEPT ![e] = IdleRequest]
  /\ UNCHANGED <<impl, operationIdCounter, connected, connectedAt, npmUser, orgs, otp, mexec>>

\* the results of a command that exits, with 0 or not, and of an unknown type
ExecResults == {execNpmResult("resolved"), execNpmResult("exit"), UnknownOperationType}

\* everything executeOperation can resolve to or reject with
AllExecResults == {execNpmResult(outcome) : outcome \in ExecOutcomes}
                    \cup {UnknownOperationType, TypeError}

\* no POST /execute request is in flight
Serial == \A e \in ExecReqs : rexec[e].pc = "idle"

Init ==
  /\ impl \in {"mock", "real"}
  /\ operations = <<>>
  /\ operationIdCounter = 0
  /\ connected = FALSE
  /\ connectedAt = 0
  /\ npmUser = Null
  /\ orgs = EmptyObject
  /\ otp = Null
  /\ mexec = IdleFrame
  /\ rexec = [e \in ExecReqs |-> IdleRequest]

\* the mock state manager is between calls
MockIdle == impl = "mock" /\ mexec.pc = "idle"

\* an executeOperations() call is in progress
MockBusy == impl = "mock" /\ mexec.pc # "idle"

\* the real connector has no POST /execute in flight
RealIdle == impl = "real" /\ Serial

\* Calls and requests are served one at a time: none starts while an execute is in
\* progress.  A request body's dependsOn names an id the client was given.
Next ==
  \/ MockIdle /\ \E token \in Tokens : connect(token)
  \/ MockIdle /\ disconnect
  \/ MockIdle /\ reset
  \/ MockIdle /\ \E input \in Inputs, d \in DependsOnValues : addOperation(input, d)
  \/ MockIdle /\ \E id \in 1..MaxOps : removeOperation(id)
  \/ MockIdle /\ clearOperations
  \/ MockIdle /\ \E id \in 1..MaxOps : approveOperation(id)
  \/ MockIdle /\ approveAll
  \/ MockIdle /\ \E id \in 1..MaxOps : retryOperation(id)
  \/ MockIdle /\ \E o \in OtpValues : executeOperations(o)
  \/ MockBusy /\ executeSkip
  \/ MockBusy /\ executeRun
  \/ MockBusy /\ \E c \in ConfiguredResults : executeFinish(c)
  \/ MockBusy /\ executeReturn
  \/ RealIdle /\ \E token \in TokenBodies, whoami \in WhoamiResults : PostConnect(token, whoami)
  \/ RealIdle /\ \E h \in Headers, body \in RealInputs, d \in 0..operationIdCounter :
                   PostOperations(h, body, d)
  \/ RealIdle /\ \E h \in Headers, o \in OtpBodies : PostOtp(h, o)
  \/ RealIdle /\ \E h \in Headers, id \in 1..MaxOps : PostApprove(h, id)
  \/ RealIdle /\ \E h \in Headers : PostApproveAll(h)
  \/ RealIdle /\ \E h \in Headers, id \in 1..MaxOps : DeleteOperations(h, id)
  \/ RealIdle /\ \E h \in Headers : DeleteAll(h)
  \/ RealIdle /\ \E h \in Headers, e \in ExecReqs : PostExecute(h, e)
  \/ impl = "real" /\ \E e \in ExecReqs, result \in ExecResults : ExecuteResume(e, result)

Spec == Init /\ [][Next]_vars

\* The real connector as it serves HTTP: no handler takes a lock, so a request is
\* handled whenever it arrives, also while POST /execute requests await their
\* commands.  The requests are those on the operation queue, with the valid
\* header or none and no dependsOn.  The mock state manager is synchronous and
\* behaves as in Spec.
RealAny == impl = "real"

OverlapHeaders == {<<"Bearer ", Secret>>, <<>>}

NextOverlap ==
  \/ MockIdle /\ \E token \in Tokens : connect(token)
  \/ MockIdle /\ disconnect
  \/ MockIdle /\ reset
  \/ MockIdle /\ \E input \in Inputs, d \in DependsOnValues : addOperation(input, d)
  \/ MockIdle /\ \E id \in 1..MaxOps : removeOperation(id)
  \/ MockIdle /\ clearOperations
  \/ MockIdle /\ \E id \in 1..MaxOps : approveOperation(id)
  \/ MockIdle /\ approveAll
  \/ MockIdle /\ \E id \in 1..MaxOps : retryOperation(id)
  \/ MockIdle /\ \E o \in OtpValues : executeOperations(o)
  \/ MockBusy /\ executeSkip
  \/ MockBusy /\ executeRun
  \/ MockBusy /\ \E c \in ConfiguredResults : executeFinish(c)
  \/ MockBusy /\ executeReturn
  \/ RealAny /\ \E h \in OverlapHeaders, body \in RealInputs : PostOperations(h, body, 0)
  \/ RealAny /\ \E h \in OverlapHeaders, id \in 1..MaxOps : PostApprove(h, id)
  \/ RealAny /\ \E h \in OverlapHeaders : PostApproveAll(h)
  \/ RealAny /\ \E h \in OverlapHeaders, id \in 1..MaxOps : DeleteOperations(h, id)
  \/ RealAny /\ \E h \in OverlapHeaders : DeleteAll(h)
  \/ RealAny /\ \E h \in OverlapHeaders, e \in ExecReqs : PostExecute(h, e)
  \/ RealAny /\ \E e \in ExecReqs, result \in ExecResults : ExecuteResume(e, result)

SpecOverlap == Init /\ [][NextOverlap]_vars

\* The real connector and the commands it runs: requests are served one at a
\* time, POST /operations is sent every kind of body, POST /otp every kind of
\* otp, and a command ends in every way execNpm and executeOperation provide for.
InitNpm == Init /\ impl = "real"

NpmInputs == RealInputs \cup MoreInputs

NpmOtpBodies == OtpBodies \cup {""}

NextNpm ==
  \/ RealIdle /\ \E h \in OverlapHeaders, body \in NpmInputs : PostOperations(h, body, 0)
  \/ RealIdle /\ \E h \in OverlapHeaders, o \in NpmOtpBodies : PostOtp(h, o)
  \/ RealIdle /\ \E h \in OverlapHeaders, id \in 1..MaxOps : PostApprove(h, id)
  \/ RealIdle /\ \E h \in OverlapHeaders : PostApproveAll(h)
  \/ RealIdle /\ \E h \in OverlapHeaders : DeleteAll(h)
  \/ RealIdle /\ \E h \in OverlapHeaders, e \in ExecReqs : PostExecute(h, e)
  \/ \E e \in ExecReqs, result \in AllExecResults : ExecuteResume(e, result)

SpecNpm == InitNpm /\ [][NextNpm]_vars

\* the mock state manager as constructed
InitMock == Init /\ impl = "mock"

\* the arrays addOperations is called with
InputLists == {<<>>} \cup {<<input>> : input \in Inputs}
                \cup {<<input, input>> : input \in Inputs}

\* The mock composable: the app connects and disconnects, the test resets, and
\* the queue is worked on through the composable's actions alone.
NextComposable ==
  \/ MockIdle /\ \E token \in Tokens : connect(token)
  \/ MockIdle /\ disconnect
  \/ MockIdle /\ reset
  \/ MockIdle /\ \E input \in Inputs, d \in DependsOnValues : composableAddOperation(input, d)
  \/ MockIdle /\ \E inputs \in InputLists : composableAddOperations(inputs)
  \/ MockIdle /\ \E id \in 1..MaxOps : composableRemoveOperation(id)
  \/ MockIdle /\ composableClearOperations
  \/ MockIdle /\ \E id \in 1..MaxOps : composableApproveOperation(id)
  \/ MockIdle /\ composableApproveAll
  \/ MockIdle /\ \E id \in 1..MaxOps : composableRetryOperation(id)
  \/ MockIdle /\ \E o \in OtpValues : composableExecuteOperations(o)
  \/ MockBusy /\ executeSkip
  \/ MockBusy /\ executeRun
  \/ MockBusy /\ \E c \in ConfiguredResults : executeFinish(c)
  \/ MockBusy /\ executeReturn

SpecComposable == InitMock /\ [][NextComposable]_vars

\* The mock state manager and the data it mirrors: operations as the app sends
\* them, without dependsOn, are added, approved, removed and executed.
NextEffect ==
  \/ MockIdle /\ \E input \in EffectInputs : addOperation(input, 0)
  \/ MockIdle /\ \E id \in 1..MaxOps : removeOperation(id)
  \/ MockIdle /\ \E id \in 1..MaxOps : approveOperation(id)
  \/ MockIdle /\ approveAll
  \/ MockIdle /\ \E id \in 1..MaxOps : retryOperation(id)
  \/ MockIdle /\ \E o \in OtpValues : executeOperations(o)
  \/ MockBusy /\ executeRun
  \/ MockBusy /\ \E c \in ConfiguredResults : executeFinish(c)
  \/ MockBusy /\ executeReturn

SpecEffect == InitMock /\ [][NextEffect]_vars

\* ================================================================ properties
\* operation id is in the queue with a status of S
HasStatus(id, S) ==
  \E i \in 1..Len(operations) : operations[i].id = id /\ operations[i].status \in S

\* the queue entries with a status of S
WithStatusIn(S) == {i \in 1..Len(operations) : operations[i].status \in S}

\* the header `Bearer <secret>`
BearerSecret == <<"Bearer ", Secret>>

\* ------------------------------------------------------------------------ C1
StatusChanges ==
  { <<"pending", "approved">>, <<"approved", "running">>, <<"running", "completed">>,
    <<"running", "failed">>, <<"failed", "approved">> }

\* a step that changes the queue changes a status along StatusChanges only, from
\* failed in a retry step only
C1_Changes ==
  \A i \in 1..Len(operations), j \in 1..Len(operations') :
    (operations[i].id = operations'[j].id
       /\ operations[i].status # operations'[j].status)
    => /\ <<operations[i].status, operations'[j].status>> \in StatusChanges
       /\ operations[i].status = "failed" => \E id \in 1..MaxOps : retryOperation(id)

\* an approve of an operation that is not pending, or a retry of one that is not
\* failed, returns failure
C1_Returns ==
  \A id \in 1..MaxOps :
    /\ ~HasStatus(id, {"pending"}) =>
         /\ impl = "mock" => ~approveOperationReturns(id)
         /\ impl = "real" => PostApproveStatus(BearerSecret, id) \in {400, 404}
    /\ ~HasStatus(id, {"failed"}) =>
         (impl = "mock" => ~retryOperationReturns(id))

\* no step that changes the queue is such a call
C1_Rejects ==
  \A id \in 1..MaxOps :
    /\ ~HasStatus(id, {"pending"}) => ~approveOperation(id) /\ ~PostApprove(BearerSecret, id)
    /\ ~HasStatus(id, {"failed"}) => ~retryOperation(id)

C1_Step == operations' # operations => C1_Changes /\ C1_Rejects

C2_DependsOnRespected ==
  \A i \in 1..Len(operations) :
    (operations[i].reqDependsOn # 0 /\ operations[i].status = "running")
      => HasStatus(operations[i].reqDependsOn, {"completed"})

\* ------------------------------------------------------------------------ C3
\* the operation executeOperations recorded its k-th result for
ResultOp(k) == operations[FindIndex(operations, mexec.results[k].id)]

\* every operation that succeeded earlier in the pass is completed
C3_EarlierCompleted ==
  \A k \in 1..(Len(mexec.results) - 1) :
    mexec.results[k].result.exitCode = 0 => ResultOp(k).status = "completed"

\* a result of the pass signals requiresOtp while the call has no OTP
C3_Signalled ==
  /\ impl = "mock" /\ mexec.pc # "idle" /\ ~Truthy(mexec.otp)
  /\ \E k \in 1..Len(mexec.results) : mexec.results[k].result.requiresOtp

Without(id) == SelectSeq(operations, LAMBDA op : op.id # id)

\* what a remove of id has to do: fail and change nothing for an unknown or a
\* running operation, and take exactly that operation out otherwise
C4_Removes(id, succeeded) ==
  IF ~HasStatus(id, Statuses \ {"running"})
  THEN ~succeeded /\ operations' = operations
  ELSE succeeded /\ id \notin Ids(operations') /\ operations' = Without(id)

C4_Step ==
  \A id \in 1..MaxOps :
    /\ removeOperation(id) => C4_Removes(id, removeOperationReturns(id))
    /\ DeleteOperations(BearerSecret, id)
         => /\ C4_Removes(id, DeleteOperationsStatus(BearerSecret, id) = 200)
            /\ DeleteOperationsStatus(BearerSecret, id) \in {200, 400, 404}

\* C4: a remove of an unknown id or of a running operation returns failure and
\* leaves the queue as it is; a remove of an operation in another status returns
\* success and leaves the queue without it, the other operations unchanged and in
\* their order.
C4_Remove == [][C4_Step]_vars

\* the connector's queue holds a running operation after another one was taken out
C4_Witness ==
  /\ impl = "real"
  /\ Len(operations) < operationIdCounter
  /\ WithStatusIn({"running"}) # {}

\* ------------------------------------------------------------------------ C5
\* what approveAll has to do with the queue, and to return
C5_Approves(count) ==
  /\ count = Cardinality(WithStatusIn({"pending"}))
  /\ Len(operations') = Len(operations)
  /\ \A i \in 1..Len(operations) :
       operations'[i] = IF operations[i].status = "pending"
                        THEN [operations[i] EXCEPT !.status = "approved"]
                        ELSE operations[i]

\* the operation a step added is the last one, and pending
C5_AddedPending ==
  operationIdCounter' # operationIdCounter /\ operationIdCounter' # 0
    => /\ Len(operations') = Len(operations) + 1
       /\ operations'[Len(operations')].status = "pending"
       /\ SubSeq(operations', 1, Len(operations)) = operations

C5_Step ==
  /\ approveAll => C5_Approves(approveAllReturns)
  /\ PostApproveAll(BearerSecret) => C5_Approves(PostApproveAllCount)
  /\ C5_AddedPending

\* C5: approveAll returns the number of operations that are pending when it is
\* called and makes exactly those approved, every other operation unchanged; an
\* operation added afterwards is pending.
C5_ApproveAll == [][C5_Step]_vars

\* an approved operation, and behind it a pending one that was added later
C5_Witness ==
  /\ Len(operations) >= 2
  /\ operations[1].status = "approved"
  /\ operations[Len(operations)].status = "pending"

\* ------------------------------------------------------------------------ C6
\* what a clear has to do with the queue, and to return
C6_Clears(count) ==
  /\ count = Cardinality(WithStatusIn(Statuses \ {"running"}))
  /\ operations' = SelectSeq(operations, LAMBDA op : op.status = "running")

C6_Step ==
  /\ clearOperations => C6_Clears(clearOperationsReturns)
  /\ DeleteAll(BearerSecret) => C6_Clears(DeleteAllCount)

\* C6: a clear removes every operation that is not running, returns their number,
\* and leaves the running operations unchanged and in their order.
C6_ClearAll == [][C6_Step]_vars

\* the connector's queue holds nothing but a running operation, the operations
\* enqueued next to it are gone
C6_Witness ==
  /\ impl = "real"
  /\ operationIdCounter >= 2
  /\ Len(operations) = 1
  /\ operations[1].status = "running"

\* ------------------------------------------------------------------------ C7
\* the state of the connector: session, OTP holder, operation queue
ConnectorState == <<connectedAt, npmUser, otp, operations, operationIdCounter, rexec>>

\* the headers that are absent, malformed, or carry another token
BadHeaders == Headers \ {BearerSecret}

C7_Step ==
  \A h \in BadHeaders :
    /\ \A id \in 1..MaxOps :
         /\ PostApprove(h, id) => PostApproveStatus(h, id) = 401 /\ UNCHANGED ConnectorState
         /\ DeleteOperations(h, id)
              => DeleteOperationsStatus(h, id) = 401 /\ UNCHANGED ConnectorState
    /\ \A body \in RealInputs, d \in 0..MaxOps :
         PostOperations(h, body, d) => UNCHANGED ConnectorState
    /\ \A o \in OtpBodies : PostOtp(h, o) => UNCHANGED ConnectorState
    /\ PostApproveAll(h) => UNCHANGED ConnectorState
    /\ DeleteAll(h) => UNCHANGED ConnectorState
    /\ \A e \in ExecReqs : PostExecute(h, e) => UNCHANGED ConnectorState

\* C7: a request to an endpoint other than /connect whose Authorization header is
\* absent, is not `Bearer <token>`, or carries another token than the secret is
\* answered 401 and changes neither the session, nor the OTP, nor the queue.
C7_Unauthorized == [][C7_Step]_vars

\* ------------------------------------------------------------------------ C8
C8_Step ==
  /\ \A token \in TokenBodies \ {Secret}, whoami \in WhoamiResults :
       /\ PostConnectStatus(token) = 401
       /\ PostConnect(token, whoami) => UNCHANGED <<ConnectorState, connected>>
  /\ \A token \in Tokens \ {Secret} :
       /\ ~connectReturns(token)
       /\ connect(token) => UNCHANGED <<ConnectorState, connected>>

\* C8: a connect whose token is missing or differs from the secret is answered 401
\* (false by the mock) and changes nothing: connected, connectedAt, npmUser and
\* the queue stay as they are.
C8_ConnectRejected == [][C8_Step]_vars

\* the connector holds operations and no session: no connect was accepted, a
\* rejected one leaves this state as it is
C8_Witness ==
  /\ impl = "real"
  /\ connectedAt = 0 /\ npmUser = Null
  /\ Len(operations) > 0

\* ------------------------------------------------------------------------ C9
\* operation op has a dependency that is not met
C9_Unmet(op) == op.dependsOn # 0 /\ ~HasStatus(op.dependsOn, {"completed"})

\* the operation is completed and holds result, whose exitCode is 0
C9_Succeeded(op, result) ==
  op.status = "completed" /\ op.result = Some(result) /\ result.exitCode = 0

\* executeOperations() has returned without asking for an OTP: every operation
\* it found approved was attempted unless its dependency is unmet, and is
\* completed with its result when its command succeeded
C9_MockPass ==
  (impl = "mock" /\ mexec.pc = "returned" /\ ~mexec.otpRequired) =>
    /\ \A i \in WithStatusIn({"approved"}) : C9_Unmet(operations[i])
    /\ WithStatusIn({"running"}) = {}
    /\ \A k \in 1..Len(mexec.results) :
         mexec.results[k].result.exitCode = 0
           => C9_Succeeded(ResultOp(k), mexec.results[k].result)

C9_Step ==
  /\ C9_MockPass'
  /\ \A e \in ExecReqs, result \in ExecResults :
       ExecuteResume(e, result) =>
         LET r == rexec[e]
             id == r.approvedOps[r.i].id
         IN /\ HasStatus(id, {"running"})
            /\ result.exitCode = 0 =>
                 \E j \in 1..Len(operations') :
                   operations'[j].id = id /\ C9_Succeeded(operations'[j], result)
            /\ r.i = Len(r.approvedOps) =>
                 /\ \A j \in 1..Len(operations') :
                      operations'[j].status \notin {"approved", "running"}
                 /\ Len(ExecuteResponse(e, result)) = Len(r.approvedOps)

\* C9: with calls served one at a time, an execute attempts every approved
\* operation whose dependency is met, and an operation whose command succeeds is
\* completed with a result whose exitCode is 0; when the execute ends no such
\* operation is left approved or running.
C9_RoundTrip == [][C9_Step]_vars

\* executeOperations() returned with a completed operation the pass ran
C9_Witness ==
  /\ impl = "mock" /\ mexec.pc = "returned" /\ ~mexec.otpRequired
  /\ \E k \in 1..Len(mexec.results) :
       C9_Succeeded(ResultOp(k), mexec.results[k].result)

\* ------------------------------------------------------------------------ C10
C10_Step ==
  \A c \in ConfiguredResults :
    executeFinish(c) =>
      LET idx == CurrentIndex
      IN /\ (operations'[idx].status = "completed"
               /\ operations'[idx].result[1].exitCode = 0)
              => orgs' = applyOperationEffect(operations[idx], orgs)
         /\ operations'[idx].status = "failed" => orgs' = orgs

\* C10: a step of executeOperations() that records exitCode 0 and marks the
\* operation completed applies the operation's effect to the mock's org data; a
\* step that marks it failed leaves the org data as it is.
C10_EffectApplied == [][C10_Step]_vars

\* ------------------------------------------------------------------------ C11
\* the ids the next executeOperations() call selects, in a queue ops
Selected(ops) ==
  LET sorted == sortByDependencies(Filter(ops, {"approved"}))
  IN {sorted[k] : k \in 1..Len(sorted)}

C11_Step ==
  \A id \in 1..MaxOps :
    retryOperation(id) =>
      LET index == FindIndex(operations, id)
      IN IF ~HasStatus(id, {"failed"})
         THEN ~retryOperationReturns(id) /\ UNCHANGED vars
         ELSE /\ retryOperationReturns(id)
              /\ operations' = [operations EXCEPT ![index].status = "approved",
                                                    ![index].result = None]
              /\ id \in Selected(operations')

\* C11: retryOperation(id) returns null and changes nothing unless operation id is
\* in the queue with status failed; otherwise it returns the operation, whose
\* status becomes approved and whose result becomes undefined while nothing else
\* changes, and the next executeOperations() call selects it.
C11_Retry == [][C11_Step]_vars

\* a retried operation, approved and without result, next to a failed one
C11_Witness ==
  /\ impl = "mock" /\ mexec.pc = "idle"
  /\ \E i, j \in 1..Len(operations) :
       /\ operations[i].status = "approved" /\ operations[i].result = None
       /\ operations[j].status = "failed" /\ operations[j].result # None

\* ------------------------------------------------------------------------ C12
\* the queue with operation id approved and every other operation as it is
Approved(id) == [operations EXCEPT ![FindIndex(operations, id)].status = "approved"]

C12_Step ==
  \A id \in 1..MaxOps :
    /\ approveOperation(id) =>
         IF HasStatus(id, {"pending"})
         THEN approveOperationReturns(id) /\ operations' = Approved(id)
         ELSE ~approveOperationReturns(id) /\ UNCHANGED vars
    /\ \A h \in OverlapHeaders :
         PostApprove(h, id) =>
           IF HasStatus(id, {"pending"}) /\ h = BearerSecret
           THEN PostApproveStatus(h, id) = 200 /\ operations' = Approved(id)
           ELSE PostApproveStatus(h, id) \in {400, 401, 404} /\ UNCHANGED vars

\* C12: approveOperation(id) and POST /approve return null or an error status
\* (404 for an unknown id, 400 for another status, 401 without the token) and
\* change nothing unless operation id is in the queue with status pending;
\* otherwise that operation becomes approved and every other operation, and the
\* order of the queue, stay as they are.
C12_Approve == [][C12_Step]_vars

\* the real connector approved one operation of two while a command was awaited
C12_Witness ==
  /\ impl = "real" /\ ~Serial
  /\ Len(operations) >= 2
  /\ \E i, j \in 1..Len(operations) :
       operations[i].status = "approved" /\ operations[j].status = "running"

\* ------------------------------------------------------------------------ C13
C13_Step ==
  \A e \in ExecReqs, result \in AllExecResults :
    ExecuteResume(e, result) =>
      /\ ExecuteStatus(e, result) = 200
      /\ rexec'[e].pc = "idle" =>
           \A j \in 1..Len(operations') : operations'[j].status # "running"

\* C13: whatever happens while POST /execute runs an operation, the request is
\* answered 200 with the success envelope, and when the request ends no
\* operation of the queue has status running.
C13_NeverPropagates == [][C13_Step]_vars

\* ------------------------------------------------------------------------ C14
C14_Step ==
  \A e \in ExecReqs, result \in ExecResults :
    ExecuteResume(e, result) =>
      LET r == rexec[e]
      IN r.i < Len(r.approvedOps) =>
           ~HasStatus(r.approvedOps[r.i + 1].id, {"running", "completed", "failed"})

\* C14: when a POST /execute goes on to the next operation it captured, sets it
\* running and invokes its command, no other POST /execute has invoked that
\* operation's command: the operation is not running, completed or failed.
C14_InvokedOnce == [][C14_Step]_vars

\* ------------------------------------------------------------------------ C15
\* C15: for an operation of the real connector's queue whose type is one of the
\* eleven of OperationType, executeOperation never resolves to the 'Unknown
\* operation type' result.
C15_EveryTypeResolves ==
  impl = "real" =>
    \A i \in 1..Len(operations) :
      (Has(operations[i], "type") /\ operations[i].type \in OperationType)
        => UnknownOperationType \notin executeOperation(operations[i], Undefined)

\* ------------------------------------------------------------------------ C16
\* the operation has no type, or one outside OperationType
C16_UnknownType(op) == ~(Has(op, "type") /\ op.type \in OperationType)

C16_Step ==
  \A e \in ExecReqs, result \in AllExecResults :
    ExecuteResume(e, result) =>
      LET r == rexec[e]
          op == r.approvedOps[r.i]
      IN C16_UnknownType(op) =>
           /\ \A o \in NpmOtpBodies : executeOperation(op, o) = {result}
           /\ result.exitCode = 1 /\ result.stderr = "Unknown operation type"
           /\ ExecuteStatus(e, result) = 200
           /\ \E j \in 1..Len(operations') :
                /\ operations'[j].id = op.id
                /\ operations'[j].status = "failed"
                /\ operations'[j].result = Some(result)
           /\ IF r.i < Len(r.approvedOps)
              THEN /\ rexec'[e].pc = "await" /\ rexec'[e].i = r.i + 1
                   /\ \E j \in 1..Len(operations') :
                        /\ operations'[j].id = r.approvedOps[r.i + 1].id
                        /\ operations'[j].status = "running"
              ELSE Len(ExecuteResponse(e, result)) = Len(r.approvedOps)

\* C16: when POST /execute runs an operation whose type is not one of
\* OperationType, executeOperation resolves, without running a command, to the
\* one result with exitCode 1 and the stderr 'Unknown operation type'; the
\* operation is recorded failed with that result, and the request goes on to run
\* the next operation of its batch, or answers with a result for each.
C16_UnknownTypeFails == [][C16_Step]_vars

\* a POST /execute went on to its second operation after one of an unknown type
C16_Witness ==
  \E e \in ExecReqs :
    /\ rexec[e].pc = "await" /\ rexec[e].i = 2
    /\ C16_UnknownType(rexec[e].approvedOps[1])
    /\ rexec[e].results[1].result.stderr = "Unknown operation type"
    /\ HasStatus(rexec[e].approvedOps[1].id, {"failed"})
    /\ HasStatus(rexec[e].approvedOps[2].id, {"running"})

\* ------------------------------------------------------------------------ C17
C17_Step ==
  \A h \in OverlapHeaders, body \in NpmInputs :
    (PostOperations(h, body, 0) /\ ~Has(body, "type")) =>
      /\ PostOperationsStatus(h, body) \in {400, 401}
      /\ UNCHANGED operations

\* C17: a POST /operations whose body has no type is answered with an error
\* status (400, or 401 without the token) and leaves the queue as it is.
C17_BodyValidated == [][C17_Step]_vars

\* ------------------------------------------------------------------------ C18
\* the id the next addOperation() call returns: `op-${++operationIdCounter}`
NextId == operationIdCounter + 1

\* no two operations of the queue share an id
C18_Distinct ==
  \A i, j \in 1..Len(operations) : operations[i].id = operations[j].id => i = j

C18_Step ==
  impl = "mock" =>
    /\ NextId' >= NextId
    /\ \A input \in Inputs, d \in DependsOnValues :
         addOperation(input, d) =>
           /\ operations'[Len(operations')].id = NextId
           /\ NextId' > NextId

\* the original statement: no two operations of the mock's queue share an id,
\* addOperation returns the id NextId and raises it, and no call lowers it (the
\* ids below NextId are those returned so far), so no id is returned twice.
C18_IdsNeverReturnedAgain == []C18_Distinct /\ [][C18_Step]_vars

\* C18: no two operations of the mock's queue share an id, addOperation returns
\* the id NextId and raises it, and no call but reset() lowers it: an id is not
\* returned again after removeOperation, clearOperations or disconnect, until
\* reset() empties the queue and restarts the numbering.
C18_UniqueUntilReset == []C18_Distinct /\ [][C18_Step \/ reset]_vars

\* the mock holds operation 2 alone: operation 1 was removed and its id not reused
C18_Witness ==
  /\ impl = "mock" /\ operationIdCounter = 2
  /\ Len(operations) = 1 /\ operations[1].id = 2

\* ------------------------------------------------------------------------ C19
\* the queue lists the operations in the order they were added: the n-th
\* operation added since the start (or the last reset) has id n
C19_InsertionOrder ==
  \A i, j \in 1..Len(operations) : i < j => operations[i].id < operations[j].id

\* the step put one operation, pending and without result, at the end of the queue
C19_Appended ==
  /\ Len(operations') = Len(operations) + 1
  /\ SubSeq(operations', 1, Len(operations)) = operations
  /\ operations'[Len(operations')].status = "pending"
  /\ operations'[Len(operations')].result = None
  /\ operations'[Len(operations')].id \notin Ids(operations)

C19_Step ==
  /\ \A input \in Inputs, d \in DependsOnValues : addOperation(input, d) => C19_Appended
  /\ \A body \in RealInputs : PostOperations(BearerSecret, body, 0) => C19_Appended

\* C19: addOperation and an authorized POST /operations put one new operation,
\* with status pending and no result, at the end of the queue and leave every
\* operation already there as it is and where it is; the queue always lists the
\* operations still present in the order they were added.
C19_AppendsPending == []C19_InsertionOrder /\ [][C19_Step]_vars

\* the real connector took a second operation while the first one's command ran
C19_Witness ==
  /\ impl = "real" /\ Len(operations) = 2
  /\ operations[1].status = "running" /\ operations[2].status = "pending"

\* ------------------------------------------------------------------------ C20
\* the POST /execute requests whose operation is run by a command
C20_InFlight ==
  {e \in ExecReqs : /\ rexec[e].pc = "await"
                    /\ TypeError \notin executeOperation(rexec[e].approvedOps[rexec[e].i], Undefined)
                    /\ UnknownOperationType
                         \notin executeOperation(rexec[e].approvedOps[rexec[e].i], Undefined)}

\* the otp POST /execute passes on: state.otp ?? undefined
C20_Otp(e) == IF rexec[e].otp = Null THEN Undefined ELSE rexec[e].otp

\* the arguments of the command of request e
C20_Args(e) == NpmArgs(rexec[e].approvedOps[rexec[e].i].type, rexec[e].approvedOps[rexec[e].i].params)

\* C20: for the command of every POST /execute in flight and every way it can
\* end, execNpm returns a result with an exitCode and a stderr; the exitCode is 0
\* exactly when the command exited with 0; and the command line is npm and the
\* operation's arguments, followed by --otp and the otp exactly when an otp (not
\* null, not the empty string) is stored.
C20_ExecNpmNeverThrows ==
  \A e \in C20_InFlight : \A outcome \in ExecOutcomes :
    LET x == execNpm(C20_Args(e), C20_Otp(e), outcome)
        n == Len(x.cmd)
    IN /\ {"exitCode", "stderr"} \subseteq DOMAIN x.result
       /\ x.result \in executeOperation(rexec[e].approvedOps[rexec[e].i], C20_Otp(e))
       /\ x.result.exitCode = 0 <=> outcome = "resolved"
       /\ IF C20_Otp(e) \in {Undefined, ""}
          THEN x.cmd = <<(<<"npm">>)>> \o C20_Args(e)
          ELSE /\ SubSeq(x.cmd, 1, n - 2) = <<(<<"npm">>)>> \o C20_Args(e)
               /\ x.cmd[n - 1] = <<"--otp">> /\ x.cmd[n] = <<C20_Otp(e)>>

\* a command runs with the stored otp after an earlier one could not be spawned
C20_Witness ==
  /\ \E e \in C20_InFlight : C20_Otp(e) = "123456"
  /\ \E i \in 1..Len(operations) :
       /\ operations[i].status = "failed"
       /\ operations[i].result = Some(execNpmResult("spawn"))

\* ------------------------------------------------------------------------ C21
\* executeOperations() has returned { results, otpRequired: true }
OtpHalted == impl = "mock" /\ mexec.pc = "returned" /\ mexec.otpRequired

\* the operation with this id is in the queue, approved and without result
ApprovedNoResult(id) ==
  \E j \in 1..Len(operations) :
    /\ operations[j].id = id
    /\ operations[j].status = "approved" /\ operations[j].result = None

\* C21: when executeOperations() halts for an OTP at the operation at place i of
\* the execution order, the last result it returns is that operation's and
\* signals requiresOtp, every result is of an operation at place i or before,
\* in that order, and every operation after place i is approved and has no
\* result.
C21_NothingAfterHalt ==
  OtpHalted =>
    LET n == Len(mexec.results)
    IN /\ mexec.i \in 1..Len(mexec.sorted) /\ n >= 1
       /\ mexec.results[n].id = mexec.sorted[mexec.i]
       /\ mexec.results[n].result.requiresOtp
       /\ \A k \in 1..n : \E a \in 1..mexec.i :
            /\ mexec.results[k].id = mexec.sorted[a]
            /\ \A l \in 1..(k - 1) : \E b \in 1..(a - 1) :
                 mexec.results[l].id = mexec.sorted[b]
       /\ \A k \in (mexec.i + 1)..Len(mexec.sorted) : ApprovedNoResult(mexec.sorted[k])

\* the halt came at the first of two operations of the execution order
C21_Witness == OtpHalted /\ mexec.i = 1 /\ Len(mexec.sorted) >= 2

\* ------------------------------------------------------------------------ C22
\* the result is a failure that asks for no OTP
C22_PlainFailure(result) == result.exitCode # 0 /\ ~result.requiresOtp

\* executeOperations() returned without halting and one of its results is a
\* plain failure: no approved operation with its dependency met is left
C22_PassComplete ==
  (/\ impl = "mock" /\ mexec.pc = "returned" /\ ~mexec.otpRequired
   /\ \E k \in 1..Len(mexec.results) : C22_PlainFailure(mexec.results[k].result))
    => \A i \in WithStatusIn({"approved"}) : DependencyUnmet(operations[i])

C22_Step ==
  /\ \A c \in ConfiguredResults :
       executeFinish(c) =>
         LET idx == CurrentIndex
             result == operations'[idx].result[1]
         IN C22_PlainFailure(result) =>
              /\ operations'[idx].status = "failed"
              /\ mexec'.i = mexec.i + 1 /\ ~mexec'.otpRequired
              /\ mexec'.pc = IF mexec.i < Len(mexec.sorted) THEN "loop" ELSE "returned"
  /\ \A e \in ExecReqs, result \in ExecResults :
       ExecuteResume(e, result) =>
         LET r == rexec[e]
         IN (C22_PlainFailure(result) /\ r.i < Len(r.approvedOps)) =>
              /\ HasStatus(r.approvedOps[r.i].id, {"running"})
              /\ rexec'[e].pc = "await" /\ rexec'[e].i = r.i + 1
              /\ \E j \in 1..Len(operations') :
                   /\ operations'[j].id = r.approvedOps[r.i + 1].id
                   /\ operations'[j].status = "running"

\* C22: when an operation ends failed with a nonzero exit code and no
\* requiresOtp, executeOperations() goes on with the next operation of its
\* execution order and POST /execute sets the next operation it captured
\* running; when executeOperations() returns after such a failure, every
\* operation still approved has an unmet dependency.
C22_FailureDoesNotHalt == []C22_PassComplete /\ [][C22_Step]_vars

\* the loop runs the second operation after the first one failed plainly
C22_Witness ==
  /\ impl = "mock" /\ mexec.pc = "running" /\ mexec.i = 2
  /\ Len(mexec.results) = 1
  /\ C22_PlainFailure(mexec.results[1].result)
  /\ HasStatus(mexec.results[1].id, {"failed"})

\* ------------------------------------------------------------------------ C23
\* the operation of ops that operation id depends on, 0 when it has none in ops
DepIn(ops, id) ==
  LET d == ops[FindIndex(ops, id)].dependsOn
  IN IF d \in Ids(ops) THEN d ELSE 0

RECURSIVE Walk(_, _, _)
\* the operations of ops reached from id along at most n dependsOn links
Walk(ops, id, n) ==
  IF n = 0 \/ DepIn(ops, id) = 0 THEN {}
  ELSE {DepIn(ops, id)} \cup Walk(ops, DepIn(ops, id), n - 1)

\* the dependsOn links among ops form no cycle
Acyclic(ops) == \A id \in Ids(ops) : id \notin Walk(ops, id, Len(ops))

\* the place of id in the sequence of ids sorted, 0 when it is not there
Place(sorted, id) ==
  IF \E k \in 1..Len(sorted) : sorted[k] = id
  THEN CHOOSE k \in 1..Len(sorted) : sorted[k] = id
  ELSE 0

\* sorted lists each operation of ops once, after the one of ops it depends on
C23_Ordered(sorted, ops) ==
  /\ Len(sorted) = Len(ops)
  /\ \A id \in Ids(ops) : Place(sorted, id) # 0
  /\ \A id \in Ids(ops) :
       DepIn(ops, id) # 0 => Place(sorted, DepIn(ops, id)) < Place(sorted, id)

\* C23: the execution order of an executeOperations() call whose approved
\* operations have acyclic dependsOn links lists each of them once, after the
\* approved operation it depends on; and when such a call returns without an
\* OTP halt, every result having exitCode 0 and every selected operation
\* depending on nothing or on a selected one, all the selected operations are
\* completed.
C23_TopologicalOrder ==
  /\ impl = "mock" =>
       LET approved == Filter(operations, {"approved"})
       IN Acyclic(approved) => C23_Ordered(sortByDependencies(approved), approved)
  /\ (impl = "mock" /\ mexec.pc = "returned" /\ ~mexec.otpRequired) =>
       LET sel == [k \in 1..Len(mexec.sorted) |->
                     operations[FindIndex(operations, mexec.sorted[k])]]
       IN (/\ Acyclic(sel)
           /\ \A k \in 1..Len(sel) : sel[k].dependsOn = 0 \/ sel[k].dependsOn \in Ids(sel)
           /\ \A k \in 1..Len(mexec.results) : mexec.results[k].result.exitCode = 0)
            => /\ \A k \in 1..Len(sel) : sel[k].status = "completed"
               /\ Len(mexec.results) = Len(sel)

\* operation 1 depends on operation 2, added after it: the call ran 2, then 1,
\* and completed both
C23_Witness ==
  /\ impl = "mock" /\ mexec.pc = "returned"
  /\ mexec.sorted = <<2, 1>>
  /\ Len(operations) = 2 /\ operations[1].dependsOn = 2
  /\ operations[1].status = "completed" /\ operations[2].status = "completed"

\* ------------------------------------------------------------------------ C24
\* operation id of the queue is on a cycle of dependsOn links
OnCycle(id) == id \in Walk(operations, id, Len(operations))

\* what is left of an executeOperations() call: it goes down with every step
C24_Measure(f) ==
  CASE f.pc = "loop" -> 2 * (Len(f.sorted) - f.i) + 2
    [] f.pc = "running" -> 2 * (Len(f.sorted) - f.i) + 1
    [] OTHER -> 0

\* an operation on a cycle was never run, and the execution order of the call in
\* progress lists no operation twice, and approved operations only
C24_CycleUnresolved ==
  impl = "mock" =>
    /\ \A i \in 1..Len(operations) :
         OnCycle(operations[i].id) =>
           operations[i].status \in {"pending", "approved"} /\ operations[i].result = None
    /\ \A k, l \in 1..Len(mexec.sorted) : mexec.sorted[k] = mexec.sorted[l] => k = l
    /\ Len(mexec.sorted) <= Len(operations)

C24_Step ==
  (impl = "mock" /\ mexec.pc \in {"loop", "running"}) =>
    C24_Measure(mexec') < C24_Measure(mexec)

\* C24: executeOperations() terminates also when dependsOn links form a cycle
\* (a self-dependency included): its execution order lists each operation at
\* most once, every step of its loop brings it nearer to its return, and an
\* operation on a cycle is never run, in this call or a later one: it stays
\* pending or approved, without result.
C24_CycleTerminates == []C24_CycleUnresolved /\ [][C24_Step]_vars

\* the call returned with two approved operations that depend on each other
C24_Witness ==
  /\ impl = "mock" /\ mexec.pc = "returned" /\ Len(mexec.sorted) = 2
  /\ Len(operations) = 2
  /\ operations[1].dependsOn = 2 /\ operations[2].dependsOn = 1
  /\ operations[1].status = "approved" /\ operations[2].status = "approved"

\* ------------------------------------------------------------------------ C25
\* the loop of executeOperations() is at an operation with a dependency
C25_AtDependent ==
  impl = "mock" /\ mexec.pc = "loop" /\ operations[CurrentIndex].dependsOn # 0

C25_Step ==
  C25_AtDependent =>
    LET op == operations[CurrentIndex]
    IN IF HasStatus(op.dependsOn, {"completed"})
       THEN operations' = [operations EXCEPT ![CurrentIndex].status = "running"]
       ELSE /\ op.status = "approved" /\ op.result = None
            /\ UNCHANGED <<operations, orgs>>
            /\ mexec'.results = mexec.results /\ mexec'.i = mexec.i + 1

\* C25: when the loop of executeOperations() reaches an approved operation whose
\* dependency is missing or not completed, it passes it by: the queue, the
\* mirrored org data and the results stay as they are, the operation being
\* approved and without result; when the dependency is completed, in this call
\* or a later one, the operation is set running.
C25_SkippedUntouched == [][C25_Step]_vars

\* only the dependent operation was approved: the call returned without results
\* and the operation is still approved
C25_Witness ==
  /\ impl = "mock" /\ mexec.pc = "returned" /\ mexec.results = <<>>
  /\ Len(operations) = 2 /\ mexec.sorted = <<2>>
  /\ operations[1].status = "pending"
  /\ operations[2].dependsOn = 1
  /\ operations[2].status = "approved" /\ operations[2].result = None

\* ------------------------------------------------------------------------ C26
\* the ids of a sequence of result entries
ResultIds(results) == [k \in 1..Len(results) |-> results[k].id]

\* executeOperations() has returned: its results are those of the selected
\* operations that are no longer approved, in execution order
C26_MockResults ==
  (impl = "mock" /\ mexec.pc = "returned") =>
    ResultIds(mexec.results)
      = SelectSeq(mexec.sorted, LAMBDA id : ~HasStatus(id, {"approved"}))

\* the step changes no operation of the queue but those with an id of S
C26_OnlyChanges(S) ==
  /\ Len(operations') = Len(operations)
  /\ \A j \in 1..Len(operations) :
       operations[j].id \notin S => operations'[j] = operations[j]

\* a step of a POST /execute that starts or goes on
C26_RealStep ==
  /\ \A h \in Headers, e \in ExecReqs :
       PostExecute(h, e) =>
         /\ validateToken(h) =>
              ResultIds(rexec'[e].approvedOps) = ResultIds(Filter(operations, {"approved"}))
         /\ C26_OnlyChanges({operations[i].id : i \in WithStatusIn({"approved"})})
  /\ \A e \in ExecReqs, result \in ExecResults :
       ExecuteResume(e, result) =>
         LET r == rexec[e]
         IN /\ C26_OnlyChanges({r.approvedOps[k].id : k \in {r.i, r.i + 1} \cap 1..Len(r.approvedOps)})
            /\ \E j \in 1..Len(operations') :
                 /\ operations'[j].id = r.approvedOps[r.i].id
                 /\ operations'[j].status \in {"completed", "failed"}
            /\ r.i = Len(r.approvedOps) =>
                 ResultIds(ExecuteResponse(e, result)) = ResultIds(r.approvedOps)

C26_Step ==
  /\ (impl = "mock" /\ mexec.pc \in {"loop", "running"}) =>
       /\ C26_OnlyChanges({mexec.sorted[mexec.i]})
       /\ executeSkip => mexec'.results = mexec.results
       /\ executeRun => operations[CurrentIndex].status = "approved"
       /\ mexec.pc = "running" =>
            /\ Len(mexec'.results) = Len(mexec.results) + 1
            /\ mexec'.results[Len(mexec'.results)].id = mexec.sorted[mexec.i]
  /\ (impl = "real" /\ rexec' # rexec) => C26_RealStep

C27_Step ==
  operations' # operations =>
    \A j \in 1..Len(operations) :
      operations[j].status = "failed" =>
        \/ \E k \in 1..Len(operations') : operations'[k] = operations[j]
        \/ operations[j].id \notin Ids(operations')
        \/ retryOperation(operations[j].id)

\* C27: a failed operation keeps its status and its result through every step,
\* those of executeOperations(), approveAll(), POST /execute and POST
\* /approve-all included, unless the step removes it from the queue or is
\* retryOperation(id) for it.
C27_NoAutomaticRetry == [][C27_Step]_vars

\* ------------------------------------------------------------------------ C28
\* C28: in every reachable state at most one operation of the queue has status
\* running.
C28_OneRunning == Cardinality(WithStatusIn({"running"})) <= 1

\* ------------------------------------------------------------------------ C29
C29_Step ==
  \A e \in ExecReqs, result \in ExecResults :
    ExecuteResume(e, result) =>
      LET r == rexec[e]
      IN r.i < Len(r.approvedOps) => r.approvedOps[r.i + 1].id \in Ids(operations)

\* C29: the operation whose command a POST /execute invokes next is still in the
\* queue: one removed since the request captured it is not run.
C29_RemovedNotRun == [][C29_Step]_vars

\* ------------------------------------------------------------------------ C30
\* the stored otp is the one passed to the command of every POST /execute in
\* flight, and GET /state reports hasOtp for a stored, non-empty otp
C30_Holder ==
  impl = "real" =>
    /\ \A e \in ExecReqs : rexec[e].pc = "await" => rexec[e].otp = otp
    /\ GetState(BearerSecret).hasOtp <=> otp \notin {Null, ""}

C30_Step ==
  otp' # otp =>
    \E h \in OverlapHeaders, o \in NpmOtpBodies :
      /\ PostOtp(h, o) /\ h = BearerSecret
      /\ otp' = IF o = Undefined THEN Null ELSE o

\* C30: no step changes the stored otp but an authorized POST /otp, which stores
\* the body's otp, or null when the body has none; POST /execute passes the
\* stored otp to each command and leaves it stored, and GET /state reports hasOtp
\* true exactly while a non-empty otp is stored.
C30_OtpKept == []C30_Holder /\ [][C30_Step]_vars

\* an operation was executed with the otp, which a later POST /execute passes on
C30_Witness ==
  /\ impl = "real" /\ otp = "123456" /\ GetState(BearerSecret).hasOtp
  /\ WithStatusIn({"completed"}) # {}
  /\ \E e \in ExecReqs :
       /\ rexec[e].pc = "await" /\ rexec[e].otp = "123456"
       /\ Len(rexec[e].approvedOps) = 1

\* ------------------------------------------------------------------------ C31
\* no POST /connect has succeeded: session.connectedAt is still 0
NotConnected == impl = "real" /\ connectedAt = 0

C31_Step ==
  NotConnected =>
    /\ \A body \in RealInputs, d \in 0..operationIdCounter :
         PostOperations(BearerSecret, body, d) =>
           PostOperationsStatus(BearerSecret, body) = 401 /\ UNCHANGED ConnectorState
    /\ \A id \in 1..MaxOps :
         PostApprove(BearerSecret, id) =>
           PostApproveStatus(BearerSecret, id) = 401 /\ UNCHANGED ConnectorState

\* C31: while no POST /connect has succeeded, a POST /operations or POST /approve
\* that carries the right token is answered 401 and changes nothing.
C31_NotConnectedRejected == [][C31_Step]_vars

\* ------------------------------------------------------------------------ C32
\* the mock state manager is between calls, or a call has just returned: no
\* operation is running
C32_NoneRunning ==
  (impl = "mock" /\ mexec.pc \in {"idle", "returned"}) => WithStatusIn({"running"}) = {}

C32_Step ==
  /\ \A id \in 1..MaxOps :
       (removeOperation(id) /\ id \in Ids(operations)) =>
         /\ removeOperationReturns(id)
         /\ operations' = Without(id)
  /\ clearOperations =>
       clearOperationsReturns = Len(operations) /\ operations' = <<>>

\* C32: in the mock state manager no operation has status running once
\* executeOperations() has returned, with otpRequired or without; so between
\* calls removeOperation(id) returns true and removes the operation for every id
\* of the queue, and clearOperations() removes every operation.
C32_NoRunningBetweenCalls == []C32_NoneRunning /\ [][C32_Step]_vars

\* the call attempted two operations and returned: neither is running
C32_Witness ==
  /\ impl = "mock" /\ mexec.pc = "returned" /\ Len(mexec.results) = 2
  /\ \A i \in 1..Len(operations) : operations[i].status \in {"completed", "failed"}

\* ------------------------------------------------------------------------ C33
\* C33: when executeOperations() returns otpRequired: true, the otp option was
\* undefined or empty and the last result it returns has requiresOtp; when it
\* was given a non-empty otp it returns without otpRequired, and every operation
\* still approved has an unmet dependency.
C33_OtpRequiredOnlyWithoutOtp ==
  (impl = "mock" /\ mexec.pc = "returned") =>
    /\ mexec.otpRequired =>
         /\ mexec.otp \in {Undefined, ""}
         /\ Len(mexec.results) >= 1
         /\ mexec.results[Len(mexec.results)].result.requiresOtp
    /\ mexec.otp \notin {Undefined, ""} =>
         /\ ~mexec.otpRequired
         /\ \A i \in WithStatusIn({"approved"}) : DependencyUnmet(operations[i])

\* a call given an otp returned a result with requiresOtp and went on to the end
C33_Witness ==
  /\ impl = "mock" /\ mexec.pc = "returned" /\ mexec.otp = "123456"
  /\ Len(mexec.results) = 2
  /\ mexec.results[1].result.requiresOtp

\* ------------------------------------------------------------------------ C34
\* op depends on an operation that was added and is no longer in a queue ops,
\* counter being the number of ids given out
C34_Blocked(op, ops, counter) ==
  op.dependsOn # 0 /\ op.dependsOn <= counter /\ op.dependsOn \notin Ids(ops)

\* an operation whose dependency was removed is not running
C34_BlockedNotRunning ==
  impl = "mock" =>
    \A j \in 1..Len(operations) :
      C34_Blocked(operations[j], operations, operationIdCounter)
        => operations[j].status # "running"

C34_Step ==
  (impl = "mock" /\ <<operations, operationIdCounter, mexec>>' # <<operations, operationIdCounter, mexec>>) =>
    /\ \A j \in 1..Len(operations) :
         C34_Blocked(operations[j], operations, operationIdCounter) =>
           \A k \in 1..Len(operations') :
             operations'[k].id = operations[j].id =>
               C34_Blocked(operations'[k], operations', operationIdCounter')
    /\ (mexec.pc = "loop"
          /\ C34_Blocked(operations[CurrentIndex], operations, operationIdCounter)) =>
         /\ UNCHANGED operations
         /\ mexec'.results = mexec.results

\* C34: in the mock, once the operation that an operation depends on has been
\* removed from the queue, it stays missing for as long as the dependent is in
\* the queue (its id is not given out again); every executeOperations() call
\* passes the dependent by, and it is never running.
C34_DependentsBlocked == []C34_BlockedNotRunning /\ [][C34_Step]_vars

\* operation 1 was removed; a call passed by operation 2, which depends on it
C34_Witness ==
  /\ impl = "mock" /\ mexec.pc = "returned" /\ mexec.results = <<>>
  /\ operationIdCounter = 2 /\ Len(operations) = 1
  /\ operations[1].id = 2 /\ operations[1].dependsOn = 1
  /\ operations[1].status = "approved"

\* ------------------------------------------------------------------------ C35
\* the real connector can run the operation: executeOperation has a case for
\* its type and every parameter the case passes to npm is given
C35_Runnable(op) ==
  /\ op.type \in ExecutableTypes
  /\ \A k \in 1..Len(NpmArgs(op.type, op.params)) : NpmArgs(op.type, op.params)[k] # <<>>

\* scopeTeam.split(':'): the scope, before the first ':', and the team after it
ScopeOf(scopeTeam) ==
  SubSeq(scopeTeam, 1, (CHOOSE k \in 1..Len(scopeTeam) : scopeTeam[k] = ":") - 1)
TeamOf(scopeTeam) ==
  SubSeq(scopeTeam, (CHOOSE k \in 1..Len(scopeTeam) : scopeTeam[k] = ":") + 1, Len(scopeTeam))

\* the org data o mirrors what the operation did
C35_Mirrored(op, o) ==
  CASE op.type = "org:add-user" ->
         /\ Has(o, NormalizeOrg(op.params.org))
         /\ Has(o[NormalizeOrg(op.params.org)].users, op.params.user)
         /\ o[NormalizeOrg(op.params.org)].users[op.params.user] = op.params.role
    [] op.type = "team:create" ->
         /\ Has(o, NormalizeOrg(ScopeOf(op.params.scopeTeam)))
         /\ \E k \in 1..Len(o[NormalizeOrg(ScopeOf(op.params.scopeTeam))].teams) :
              o[NormalizeOrg(ScopeOf(op.params.scopeTeam))].teams[k]
                = TeamOf(op.params.scopeTeam)

C35_Step ==
  executeFinish(None) =>
    (C35_Runnable(operations[CurrentIndex])
      => C35_Mirrored(operations[CurrentIndex], orgs'))

\* C35: when an operation that the real connector can run from its parameters
\* completes in the mock, the mock's org data mirrors it: the member has the
\* role, the team of scopeTeam is listed in its org.
C35_SameParameterKeys == [][C35_Step]_vars

\* ------------------------------------------------------------------------ C36
\* the command line of the operation a request is waiting for
C36_Cmd(e) ==
  LET r == rexec[e]
      op == r.approvedOps[r.i]
  IN execNpmCmd(NpmArgs(op.type, op.params), IF r.otp = Null THEN Undefined ELSE r.otp)

C36_HasOtpFlag(cmd) == \E k \in 1..Len(cmd) : cmd[k] = <<"--otp">>

C37_Listed(list, op) == \E k \in 1..Len(list) : list[k] = op

\* C37: every operation of the composable's queue is listed in exactly one of
\* activeOperations and completedOperations, and the two lists hold no more
\* than the queue does.
C37_ActiveCompletedPartition ==
  impl = "mock" =>
    /\ \A i \in 1..Len(stateOperations) :
         C37_Listed(activeOperations, stateOperations[i])
           # C37_Listed(completedOperations, stateOperations[i])
    /\ Len(activeOperations) + Len(completedOperations) = Len(stateOperations)

\* one operation failed for want of an otp and is active, another is completed
C37_Witness ==
  /\ impl = "mock" /\ mexec.pc = "idle"
  /\ \E k \in 1..Len(activeOperations) :
       activeOperations[k].status = "failed" /\ requiresOtp(activeOperations[k])
  /\ \E k \in 1..Len(completedOperations) : completedOperations[k].status = "completed"

\* ------------------------------------------------------------------------ C38
C38_Kept == UNCHANGED <<operations, operationIdCounter, orgs, otp, mexec, connected>>

C38_Step ==
  ~connected =>
    /\ \A input \in Inputs, d \in DependsOnValues :
         composableAddOperation(input, d)
           => composableAddOperationReturns(input, d) = None /\ C38_Kept
    /\ \A inputs \in InputLists :
         composableAddOperations(inputs)
           => composableAddOperationsReturns(inputs) = <<>> /\ C38_Kept
    /\ \A id \in 1..MaxOps :
         /\ composableRemoveOperation(id)
              => ~composableRemoveOperationReturns(id) /\ C38_Kept
         /\ composableApproveOperation(id)
              => ~composableApproveOperationReturns(id) /\ C38_Kept
         /\ composableRetryOperation(id)
              => ~composableRetryOperationReturns(id) /\ C38_Kept
    /\ composableClearOperations => composableClearOperationsReturns = 0 /\ C38_Kept
    /\ composableApproveAll => composableApproveAllReturns = 0 /\ C38_Kept
    /\ \A o \in OtpValues :
         composableExecuteOperations(o)
           => composableExecuteOperationsReturns(mexec') = [success |-> FALSE] /\ C38_Kept

\* C38: while the state manager is not connected, addOperation returns null,
\* addOperations [], removeOperation, approveOperation and retryOperation false,
\* clearOperations and approveAll 0 and executeOperations {success: false}, and
\* the queue, the id counter, the org data and the execution are left as they
\* were; the queue has no operation while not connected.
C38_NotConnectedNoEffect ==
  [](impl = "mock" /\ ~connected => operations = <<>>) /\ [][C38_Step]_vars

\* disconnected after an operation was executed: the org data it wrote is there,
\* the queue is empty
C38_Witness ==
  /\ impl = "mock" /\ ~connected /\ mexec.pc = "idle"
  /\ orgs # EmptyObject /\ operationIdCounter = 1 /\ operations = <<>>

\* ------------------------------------------------------------------------ C39
\* C39: every operation of the queue, in the mock and in the real connector, has
\* one of the statuses pending, approved, running, completed and failed; none
\* has the sixth status of the type, cancelled.
C39_NeverCancelled ==
  \A i \in 1..Len(operations) :
    /\ operations[i].status \in OperationStatus
    /\ operations[i].status # "cancelled"

\* one of two operations was removed, the other one failed
C39_Witness ==
  /\ impl = "mock" /\ mexec.pc = "idle"
  /\ operationIdCounter = 2 /\ Len(operations) = 1
  /\ operations[1].status = "failed"
====
